---- MODULE Spec2Model ----
(***************************************************************************)
(* Verification model of the Seraaj event-sourced application platform:    *)
(* the application state machine, the application service, the relational  *)
(* event store with its retry wrapper, and the application repository.     *)
(***************************************************************************)
EXTENDS Integers, Sequences, FiniteSets, TLC

VARIABLES
    smState,    \* ApplicationStateMachine.state
    smLast,     \* the last call made on the state machine and its outcome
    retry,      \* one ConnectionRetry instance and the execute() call running on it
    events,     \* the rows of the events table (relational event store)
    procs,      \* the append_event calls in flight, one per caller
    lastBatch,  \* the last append_events_batch call and its outcome
    seqAuto,    \* history: per aggregate, the versions given to its events while it has
                \* seen only sequential append_event calls without expected_version
    busEvents,  \* EventStore.events of the in-memory event-bus store
    now,        \* the value datetime.utcnow() returns: the model lets no time pass
    backend,    \* ApplicationRepository.storage_backend
    cache,      \* ApplicationRepository._cache (file backend)
    dataFile,   \* the content of applications.json (file backend)
    applications, \* the rows of the applications projection table, by id
    eventLog,   \* the lines of application_events.jsonl written by EventPublisher
    nextId,     \* the number of the next id uuid4() gives an application
    svcLast,    \* the last ApplicationService call and its outcome
    ops,        \* the update_application_state calls in flight, one per caller
    suggestions, \* the rows of the match_suggestions projection table, by id
    projLast,   \* the last call on the projection service and its outcome
    repoLast,   \* the last ApplicationRepository call and its outcome on each backend
    match,      \* MatchRepository: its cache, files and last call
    algo,       \* MatchingAlgorithm: the last call, its arguments and its result
    redis,      \* the Redis server, its stream, and the last publish call
    db,         \* the database server as the repository's reads meet it
    sub,        \* RedisEventBus.subscribe: the stream, the batch read and its position
    auth        \* UserRepository: its users, indexes and events.jsonl

vars == <<smState, smLast, retry, events, procs, lastBatch, seqAuto, busEvents, now,
          backend, cache, dataFile, applications, eventLog, nextId, svcLast, ops,
          suggestions, projLast, repoLast, match, algo, redis, db, sub, auth>>

\* the variables of each component
smVars    == <<smState, smLast>>
retryVars == <<retry>>
storeVars == <<events, procs, lastBatch, seqAuto, busEvents, now>>
appVars   == <<backend, cache, dataFile, applications, eventLog, nextId, svcLast, ops>>
projVars  == <<suggestions, projLast>>
matchVars == <<match, algo>>
lateVars  == <<sub, auth>>
extraVars == <<redis, db, lateVars>>
otherThanSM    == <<retryVars, storeVars, appVars, projVars, repoLast, matchVars, extraVars>>
otherThanRetry == <<smVars, storeVars, appVars, projVars, repoLast, matchVars, extraVars>>
otherThanStore == <<smVars, retryVars, appVars, projVars, repoLast, matchVars, extraVars>>
otherThanApp   == <<smVars, retryVars, procs, lastBatch, seqAuto, busEvents,
                    projVars, repoLast, matchVars, extraVars>>

None == "None"

(***************************************************************************)
(* services/applications/state_machine.py                                  *)
(***************************************************************************)
ApplicationState ==
    {"draft", "submitted", "reviewing", "accepted", "rejected", "completed", "cancelled"}

\* Action names a caller may pass: the six known ones and some unknown ones.
ActionNames ==
    {"submit", "review", "accept", "reject", "complete", "cancel",
     "", "unknown", "approve", "draft"}

\* mutant of _transitions: reviewing also allows cancelled
transitions_mut(state) ==
    CASE state = "draft"     -> <<"submitted", "cancelled">>
      [] state = "submitted" -> <<"reviewing", "cancelled">>
      [] state = "reviewing" -> <<"accepted", "rejected", "cancelled">>
      [] state = "accepted"  -> <<"completed", "cancelled">>
      [] OTHER               -> <<>>

\* a table in which a rejected application may be submitted again
transitions_resubmit(state) ==
    CASE state = "draft"     -> <<"submitted", "cancelled">>
      [] state = "submitted" -> <<"reviewing", "cancelled">>
      [] state = "reviewing" -> <<"accepted", "rejected">>
      [] state = "accepted"  -> <<"completed", "cancelled">>
      [] state = "rejected"  -> <<"submitted">>
      [] OTHER               -> <<>>

\* self._transitions
transitions(state) ==
    CASE state = "draft"     -> <<"submitted", "cancelled">>
      [] state = "submitted" -> <<"reviewing", "cancelled">>
      [] state = "reviewing" -> <<"accepted", "rejected">>
      [] state = "accepted"  -> <<"completed", "cancelled">>
      [] state = "rejected"  -> <<>>
      [] state = "completed" -> <<>>
      [] state = "cancelled" -> <<>>

SeqRange(s) == {s[i] : i \in 1..Len(s)}

action_to_state(action) ==
    CASE action = "submit"   -> "submitted"
      [] action = "review"   -> "reviewing"
      [] action = "accept"   -> "accepted"
      [] action = "reject"   -> "rejected"
      [] action = "complete" -> "completed"
      [] action = "cancel"   -> "cancelled"
      [] OTHER               -> None

state_to_action(state) ==
    CASE state = "submitted" -> "submit"
      [] state = "reviewing" -> "review"
      [] state = "accepted"  -> "accept"
      [] state = "rejected"  -> "reject"
      [] state = "completed" -> "complete"
      [] state = "cancelled" -> "cancel"
      [] OTHER               -> "unknown"

\* mutant of can_transition: every known action is permitted
can_transition_mut(state, action) == action_to_state(action) # None

can_transition(state, action) ==
    LET target_state == action_to_state(action)
    IN  IF target_state = None THEN FALSE
        ELSE target_state \in SeqRange(transitions(state))

get_available_actions(state) ==
    [i \in 1..Len(transitions(state)) |-> state_to_action(transitions(state)[i])]

is_terminal(state) == state \in {"rejected", "completed", "cancelled"}

\* transition(action): the outcome and the state it leaves
transition(state, action) ==
    IF action_to_state(action) = None
    THEN [result |-> "ValueError", state |-> state]
    ELSE IF ~can_transition(state, action)
    THEN [result |-> "ValueError", state |-> state]
    ELSE [result |-> "True", state |-> action_to_state(action)]

\* values of the variables of a component in the specifications that do not run it
RetryUnused == [pc |-> "unused"]
SMUnused == [op |-> "unused"]
StoreUnused ==
    /\ events = {}
    /\ procs = <<>>
    /\ lastBatch = None
    /\ seqAuto = <<>>
    /\ busEvents = <<>>
    /\ now = 0
Unused == [op |-> "unused"]
ProjUnused ==
    /\ suggestions = <<>>
    /\ projLast = Unused
MatchUnused ==
    /\ match = Unused
    /\ algo = Unused
ExtraUnused ==
    /\ redis = Unused
    /\ db = Unused
    /\ sub = Unused
    /\ auth = Unused
AppUnused ==
    /\ backend = None
    /\ cache = <<>>
    /\ dataFile = <<>>
    /\ applications = <<>>
    /\ eventLog = <<>>
    /\ nextId = 0
    /\ svcLast = [op |-> "unused"]
    /\ ops = <<>>
SMAndRetryUnused ==
    /\ smState = "draft"
    /\ smLast = SMUnused
    /\ retry = RetryUnused

NoCall == [op |-> "init", from |-> None, action |-> None, result |-> None]

SMInit ==
    /\ smState \in ApplicationState
    /\ smLast = NoCall
    /\ retry = RetryUnused
    /\ StoreUnused
    /\ AppUnused
    /\ ProjUnused
    /\ repoLast = Unused
    /\ ExtraUnused
    /\ MatchUnused

SMTransition(action) ==
    LET r == transition(smState, action)
    IN  /\ smState' = r.state
        /\ smLast' = [op |-> "transition", from |-> smState, action |-> action,
                      result |-> r.result]
        /\ UNCHANGED otherThanSM

SMCanTransition(action) ==
    /\ smLast' = [op |-> "can_transition", from |-> smState, action |-> action,
                  result |-> IF can_transition(smState, action) THEN "True" ELSE "False"]
    /\ UNCHANGED <<smState, otherThanSM>>

SMGetAvailableActions ==
    /\ smLast' = [op |-> "get_available_actions", from |-> smState, action |-> None,
                  result |-> get_available_actions(smState)]
    /\ UNCHANGED <<smState, otherThanSM>>

SMIsTerminal ==
    /\ smLast' = [op |-> "is_terminal", from |-> smState, action |-> None,
                  result |-> IF is_terminal(smState) THEN "True" ELSE "False"]
    /\ UNCHANGED <<smState, otherThanSM>>

SMNext ==
    \/ \E action \in ActionNames : SMTransition(action)
    \/ \E action \in ActionNames : SMCanTransition(action)
    \/ SMGetAvailableActions
    \/ SMIsTerminal

SpecSM == SMInit /\ [][SMNext]_vars

(***************************************************************************)
(* C1: transition(action) succeeds, and sets the state to the action's     *)
(* target, exactly for the eight (state, action) pairs of the transition   *)
(* table; for every other pair, unknown action names included, it fails    *)
(* with an error and leaves the state unchanged.                           *)
(***************************************************************************)
C1_Table ==
    {<<"draft", "submit", "submitted">>,     <<"draft", "cancel", "cancelled">>,
     <<"submitted", "review", "reviewing">>, <<"submitted", "cancel", "cancelled">>,
     <<"reviewing", "accept", "accepted">>,  <<"reviewing", "reject", "rejected">>,
     <<"accepted", "complete", "completed">>, <<"accepted", "cancel", "cancelled">>}

C1_TransitionTable ==
    smLast.op = "transition" =>
        IF \E t \in C1_Table : t[1] = smLast.from /\ t[2] = smLast.action
        THEN /\ smLast.result = "True"
             /\ <<smLast.from, smLast.action, smState>> \in C1_Table
        ELSE /\ smLast.result = "ValueError"
             /\ smState = smLast.from

C1_Witness ==
    /\ smLast.op = "transition"
    /\ smLast.from = "reviewing"
    /\ smLast.action = "reject"
    /\ smLast.result = "True"
    /\ smState = "rejected"

(***************************************************************************)
(* infrastructure/db/connection.py: ConnectionRetry                        *)
(***************************************************************************)
default_max_retries == 3
default_delay == 1

\* largest max_retries and delay a ConnectionRetry is constructed with here
MaxRetriesArg == 3
MaxDelayArg == 2

\* what one invocation of the wrapped function can end in
FuncOutcomes ==
    {"ok", "PostgresError", "ConnectionError", "ConcurrencyError", "IntegrityError",
     "ValueError"}

\* mutant of _db_errors: every exception is caught and retried
db_errors_mut(asyncpg_available) == FuncOutcomes \ {"ok"}

\* _db_errors(): the exceptions the wrapper catches
db_errors(asyncpg_available) ==
    IF asyncpg_available THEN {"PostgresError", "ConnectionError"}
    ELSE {"ConnectionError"}

\* mutant of the backoff delay: linear instead of exponential
backoff_mut(delay, attempt) == delay * (attempt + 1)

\* self.delay * (2 ** attempt)
backoff(delay, attempt) == delay * (2 ^ attempt)

\* ConnectionRetry(max_retries, delay), before execute() is called
RetryInit ==
    /\ \E m \in 0..MaxRetriesArg, d \in 1..MaxDelayArg, a \in BOOLEAN :
          retry = [pc |-> "idle", max_retries |-> m, delay |-> d,
                   asyncpg_available |-> a, attempt |-> 0, last_exception |-> None,
                   calls |-> <<>>, sleeps |-> <<>>, result |-> None]
    /\ smState = "draft"
    /\ smLast = SMUnused
    /\ StoreUnused
    /\ AppUnused
    /\ ProjUnused
    /\ repoLast = Unused
    /\ ExtraUnused
    /\ MatchUnused

\* execute(func): enter the loop with attempt 0
RetryExecute ==
    /\ retry.pc = "idle"
    /\ retry' = [retry EXCEPT !.pc = "call", !.attempt = 0, !.last_exception = None]
    /\ UNCHANGED otherThanRetry

\* one pass of the loop body: await func(), and the except clause when it raises
RetryAttempt(outcome) ==
    /\ retry.pc = "call"
    /\ (outcome = "PostgresError") => retry.asyncpg_available
    /\ LET called == [retry EXCEPT !.calls = Append(@, outcome)]
       IN  retry' =
             IF outcome = "ok"
             THEN [called EXCEPT !.pc = "returned", !.result = "ok"]
             ELSE IF outcome \in db_errors(retry.asyncpg_available)
             THEN IF retry.attempt < retry.max_retries
                  THEN [called EXCEPT !.pc = "sleep", !.last_exception = outcome]
                  ELSE [called EXCEPT !.pc = "raised", !.last_exception = outcome,
                                      !.result = outcome]
             ELSE [called EXCEPT !.pc = "raised", !.result = outcome]
    /\ UNCHANGED otherThanRetry

\* asyncio.sleep(delay * 2 ** attempt) ends and the loop goes to the next attempt
RetrySleep ==
    /\ retry.pc = "sleep"
    /\ retry' = [retry EXCEPT !.pc = "call",
                              !.sleeps = Append(@, backoff(retry.delay, retry.attempt)),
                              !.attempt = @ + 1]
    /\ UNCHANGED otherThanRetry

RetryNext ==
    \/ RetryExecute
    \/ \E outcome \in FuncOutcomes : RetryAttempt(outcome)
    \/ RetrySleep

SpecRetry == RetryInit /\ [][RetryNext]_vars

\* a started execute() keeps running: the awaited function and the sleep both end
SpecRetryFair ==
    SpecRetry /\ WF_vars(\E outcome \in FuncOutcomes : RetryAttempt(outcome))
              /\ WF_vars(RetrySleep)

RetryDone == retry.pc \in {"returned", "raised"}

(***************************************************************************)
(* C9: a ConcurrencyError raised by the wrapped event-store operation is   *)
(* never retried: the attempt that raises it is the last one, no backoff   *)
(* delay follows it and the caller gets the ConcurrencyError; raised by    *)
(* the first attempt, the wrapper has made exactly one attempt and has     *)
(* not slept at all.                                                       *)
(***************************************************************************)
C9_ConcurrencyErrorNotRetried ==
    \A i \in 1..Len(retry.calls) :
        retry.calls[i] = "ConcurrencyError" =>
            /\ i = Len(retry.calls)
            /\ retry.pc = "raised"
            /\ retry.result = "ConcurrencyError"
            /\ Len(retry.sleeps) = i - 1
            /\ (retry.attempt = 0 => (Len(retry.calls) = 1 /\ retry.sleeps = <<>>))

C9_Witness ==
    /\ retry.calls = <<"ConcurrencyError">>
    /\ retry.pc = "raised"
    /\ retry.max_retries = default_max_retries

(***************************************************************************)
(* C10: execute() always terminates. When every attempt fails with a       *)
(* transient storage error it makes at most max_retries + 1 attempts (4 by *)
(* default), sleeps delay * 2^k before the retry that follows failed       *)
(* attempt k, and then raises the last error; it returns the result of the *)
(* first attempt that succeeds and makes no attempt after it.              *)
(***************************************************************************)
C10_Transient == {"PostgresError", "ConnectionError"}

C10_Bounded ==
    LET n == Len(retry.calls)
    IN  /\ n <= retry.max_retries + 1
        /\ (retry.max_retries = 3 => n <= 4)
        /\ Len(retry.sleeps) = retry.attempt
        /\ \A k \in 1..Len(retry.sleeps) :
              /\ retry.sleeps[k] = retry.delay * (2 ^ (k - 1))
              /\ retry.calls[k] \in C10_Transient
        /\ ((retry.pc = "raised" /\ \A i \in 1..n : retry.calls[i] \in C10_Transient) =>
              /\ n = retry.max_retries + 1
              /\ Len(retry.sleeps) = retry.max_retries
              /\ retry.result = retry.calls[n])
        /\ \A i \in 1..n :
              retry.calls[i] = "ok" =>
                  (i = n /\ retry.pc = "returned" /\ retry.result = "ok")
        /\ (retry.pc = "returned" => (n >= 1 /\ retry.calls[n] = "ok"))

C10_Terminates ==
    /\ []C10_Bounded
    /\ (retry.pc \in {"call", "sleep"}) ~> RetryDone

C10_Witness ==
    /\ retry.pc = "raised"
    /\ retry.max_retries = default_max_retries
    /\ retry.delay = default_delay
    /\ retry.calls = <<"ConnectionError", "PostgresError", "ConnectionError", "ConnectionError">>
    /\ retry.sleeps = <<1, 2, 4>>
    /\ retry.result = "ConnectionError"

(***************************************************************************)
(* infrastructure/db/event_store.py: EventStore on the events table        *)
(***************************************************************************)
Procs == {"p1", "p2"}
Aggregates == {"a1", "a2"}

\* most rows of the events table: no call that could add a row beyond it is made
MaxEvents == 2
\* largest expected_version, and largest version in a batch, a caller passes
MaxVersion == 2
\* most events in one append_events_batch call
MaxBatch == 1
\* most events appended to the in-memory event-bus store
MaxBusEvents == 2

\* expected_version = None, to_version = None: no version given
NoVersion == -1

RowsOf(evs, aggregate_id) == {e \in evs : e.aggregate_id = aggregate_id}
VersionsOf(evs, aggregate_id) == {e.version : e \in RowsOf(evs, aggregate_id)}

\* _get_current_version: SELECT COALESCE(MAX(version), 0)
get_current_version(evs, aggregate_id) ==
    LET vs == VersionsOf(evs, aggregate_id)
    IN  IF vs = {} THEN 0 ELSE CHOOSE v \in vs : \A w \in vs : w <= v

\* mutant of the version computation: the expected version is not compared
check_version_nocheck(current_version, expected_version) ==
    IF expected_version # NoVersion
    THEN [error |-> None, next_version |-> expected_version + 1]
    ELSE [error |-> None, next_version |-> current_version + 1]

\* mutant of the version computation: the automatic version is not incremented
check_version_noincr(current_version, expected_version) ==
    IF expected_version # NoVersion
    THEN IF current_version # expected_version
         THEN [error |-> "ConcurrencyError", next_version |-> NoVersion]
         ELSE [error |-> None, next_version |-> expected_version + 1]
    ELSE [error |-> None, next_version |-> current_version]

\* _append, first part: the expected-version check and the next version
check_version(current_version, expected_version) ==
    IF expected_version # NoVersion
    THEN IF current_version # expected_version
         THEN [error |-> "ConcurrencyError", next_version |-> NoVersion]
         ELSE [error |-> None, next_version |-> expected_version + 1]
    ELSE [error |-> None, next_version |-> current_version + 1]

\* the constraint events_aggregate_version_unique on (aggregate_id, version)
unique_violation(evs, aggregate_id, version) ==
    \E e \in evs : e.aggregate_id = aggregate_id /\ e.version = version

\* uuid.uuid4(): an id no stored row has; here the aggregate, the version and a
\* serial number among the rows that share them
uuid4(evs, aggregate_id, version) ==
    <<aggregate_id, version,
      Cardinality({e \in evs : e.aggregate_id = aggregate_id /\ e.version = version})>>

\* StoredEvent, with event_id = uuid4() and occurred_at = utcnow()
StoredEvent(evs, aggregate_type, aggregate_id, event_type, version, payload) ==
    [event_id |-> uuid4(evs, aggregate_id, version), aggregate_type |-> aggregate_type,
     aggregate_id |-> aggregate_id, event_type |-> event_type,
     occurred_at |-> now, version |-> version, payload |-> payload,
     contracts_version |-> "1.0.0"]

\* mutant of the insert: the IntegrityError is swallowed and the event returned
insert_event_swallow(evs, row) ==
    IF unique_violation(evs, row.aggregate_id, row.version)
    THEN [error |-> None, events |-> evs]
    ELSE [error |-> None, events |-> evs \cup {row}]

\* _append, second part: the INSERT, its IntegrityError handler, and the commit or
\* rollback of get_session
\* mutant of the insert: ON CONFLICT (aggregate_id, version) the stored row is replaced
insert_event_replace(evs, row) ==
    [error |-> None,
     events |-> {e \in evs : ~(e.aggregate_id = row.aggregate_id /\ e.version = row.version)}
                    \cup {row}]

insert_event(evs, row) ==
    IF unique_violation(evs, row.aggregate_id, row.version)
    THEN [error |-> "ConcurrencyError", events |-> evs]
    ELSE [error |-> None, events |-> evs \cup {row}]

\* default_retry.execute around _append: whether the error is caught and retried
retried(error, attempt) ==
    error \in db_errors(TRUE) /\ attempt < default_max_retries

\* get_events: the rows of the aggregate in the version range, ORDER BY version
RECURSIVE OrderByVersion(_)
OrderByVersion(rows) ==
    IF rows = {} THEN <<>>
    ELSE LET first == CHOOSE e \in rows : \A x \in rows : e.version <= x.version
         IN  <<first>> \o OrderByVersion(rows \ {first})

get_events(evs, aggregate_id, from_version, to_version) ==
    OrderByVersion({e \in RowsOf(evs, aggregate_id) :
                       /\ e.version >= from_version
                       /\ (to_version # NoVersion => e.version <= to_version)})

get_aggregate_version(evs, aggregate_id) == get_current_version(evs, aggregate_id)

\* history value of an aggregate that has seen another kind of write
Impure == [pure |-> FALSE, calls |-> 0, versions |-> <<>>]

IdleProc ==
    [pc |-> "idle", aggregate_id |-> None, event_type |-> None,
     expected_version |-> NoVersion, next_version |-> NoVersion, attempt |-> 0,
     result |-> None, rival |-> FALSE]

\* a finished call: its arguments, the version it computed, its outcome, and whether
\* it ran concurrently with a call for the same aggregate carrying the same
\* expected_version (history)
DoneProc(proc, result) ==
    [proc EXCEPT !.pc = "done", !.result = result, !.attempt = 0]

Active(p) == procs[p].pc \in {"read", "insert"}

\* rows stored, plus one for each call in flight
Reserved == Cardinality(events) + Cardinality({q \in Procs : Active(q)})

StoreInit ==
    /\ events = {}
    /\ procs = [p \in Procs |-> IdleProc]
    /\ lastBatch = None
    /\ seqAuto = [a \in Aggregates |-> [pure |-> TRUE, calls |-> 0, versions |-> <<>>]]
    /\ busEvents = <<>>
    /\ now = 1
    /\ SMAndRetryUnused
    /\ AppUnused
    /\ ProjUnused
    /\ repoLast = Unused
    /\ ExtraUnused
    /\ MatchUnused

\* append_event is called: the retry wrapper starts _append, which opens a session
AppendEvent(p, aggregate_id, event_type, expected_version) ==
    /\ ~Active(p)
    /\ Reserved < MaxEvents
    /\ LET same   == {q \in Procs \ {p} :
                        Active(q) /\ procs[q].aggregate_id = aggregate_id}
           rivals == {q \in same : /\ expected_version # NoVersion
                                   /\ procs[q].expected_version = expected_version}
       IN  /\ procs' = [q \in Procs |->
                 IF q = p
                 THEN [pc |-> "read", aggregate_id |-> aggregate_id,
                       event_type |-> event_type, expected_version |-> expected_version,
                       next_version |-> NoVersion, attempt |-> 0, result |-> None,
                       rival |-> rivals # {}]
                 ELSE IF q \in rivals
                 THEN [procs[q] EXCEPT !.rival = TRUE]
                 ELSE procs[q]]
           /\ seqAuto' = [seqAuto EXCEPT ![aggregate_id] =
                             IF @.pure /\ expected_version = NoVersion /\ same = {}
                             THEN @ ELSE Impure]
    /\ UNCHANGED <<events, lastBatch, busEvents, now, otherThanStore>>

\* _append reads the current version and compares it with expected_version
AppendRead(p) ==
    /\ procs[p].pc = "read"
    /\ LET current_version == get_current_version(events, procs[p].aggregate_id)
           r == check_version(current_version, procs[p].expected_version)
       IN  procs' = [procs EXCEPT ![p] =
               IF r.error = None
               THEN [@ EXCEPT !.pc = "insert", !.next_version = r.next_version]
               ELSE IF retried(r.error, @.attempt)
               THEN [@ EXCEPT !.attempt = @ + 1]
               ELSE DoneProc(@, r.error)]
    /\ UNCHANGED <<events, lastBatch, seqAuto, busEvents, now, otherThanStore>>

\* _append inserts the row; the session commits, or rolls back on the error
AppendInsert(p) ==
    /\ procs[p].pc = "insert"
    /\ LET me  == procs[p]
           row == StoredEvent(events, "Application", me.aggregate_id, me.event_type,
                              me.next_version, "payload")
           r   == insert_event(events, row)
       IN  /\ events' = r.events
           /\ procs' = [procs EXCEPT ![p] =
                 IF r.error = None
                 THEN DoneProc(@, "ok")
                 ELSE IF retried(r.error, @.attempt)
                 THEN [@ EXCEPT !.pc = "read", !.attempt = @ + 1,
                                !.next_version = NoVersion]
                 ELSE DoneProc(@, r.error)]
           /\ seqAuto' = [seqAuto EXCEPT ![me.aggregate_id] =
                 IF @.pure
                 THEN [@ EXCEPT !.calls = @ + 1,
                                !.versions = IF r.events # events
                                             THEN Append(@, me.next_version) ELSE @]
                 ELSE @]
    /\ UNCHANGED <<lastBatch, busEvents, now, otherThanStore>>

\* the event_data dictionaries a caller of append_events_batch passes
BatchItems ==
    [aggregate_type : {"Application"}, aggregate_id : Aggregates,
     event_type : {"application.updated"}, version : 1..MaxVersion,
     payload : {"payload"}, occurred_at : {0}]

Batches == UNION {[1..n -> BatchItems] : n \in 1..MaxBatch}

\* _append_batch: the loop inserting events_data[i..] into the session's view evs
RECURSIVE append_batch(_, _, _)
append_batch(evs, events_data, i) ==
    IF i > Len(events_data) THEN [error |-> None, events |-> evs]
    ELSE LET d   == events_data[i]
             row == [event_id |-> uuid4(evs, d.aggregate_id, d.version),
                     aggregate_type |-> d.aggregate_type,
                     aggregate_id |-> d.aggregate_id, event_type |-> d.event_type,
                     occurred_at |-> d.occurred_at, version |-> d.version,
                     payload |-> d.payload, contracts_version |-> "1.0.0"]
         IN  IF unique_violation(evs, d.aggregate_id, d.version)
             THEN [error |-> "IntegrityError", events |-> evs]
             ELSE append_batch(evs \cup {row}, events_data, i + 1)

\* mutant of get_session: what the block did is committed also when it raises
get_session_mut(before, r) == r.events

\* get_session: commit when the block ends normally, rollback when it raises
get_session(before, r) == IF r.error = None THEN r.events ELSE before

\* append_events_batch(events_data): one session, one transaction
AppendEventsBatch(events_data) ==
    /\ Reserved + Len(events_data) <= MaxEvents
    /\ LET r == append_batch(events, events_data, 1)
       IN  /\ events' = get_session(events, r)
           /\ lastBatch' = IF r.error = None THEN "ok" ELSE r.error
    /\ seqAuto' = [a \in Aggregates |->
                     IF \E i \in 1..Len(events_data) : events_data[i].aggregate_id = a
                     THEN Impure
                     ELSE seqAuto[a]]
    /\ UNCHANGED <<procs, busEvents, now, otherThanStore>>

(***************************************************************************)
(* infrastructure/event-bus/store.py: the in-memory EventStore             *)
(***************************************************************************)
\* mutant of the in-memory append: the version is the length of the whole list
bus_version_mut(evs, aggregate_id) == Len(evs) + 1

\* len([e for e in self.events if e["aggregate_id"] == aggregate_id]) + 1
bus_version(evs, aggregate_id) ==
    Cardinality({i \in 1..Len(evs) : evs[i].aggregate_id = aggregate_id}) + 1

\* EventStore.append(event_type, aggregate_id, data)
BusAppend(event_type, aggregate_id) ==
    /\ Len(busEvents) < MaxBusEvents
    /\ busEvents' = Append(busEvents,
          [event_id |-> Len(busEvents) + 1, event_type |-> event_type,
           aggregate_id |-> aggregate_id, timestamp |-> Len(busEvents) + 1,
           data |-> "data", version |-> bus_version(busEvents, aggregate_id)])
    /\ UNCHANGED <<events, procs, lastBatch, seqAuto, now, otherThanStore>>

\* EventStore.get_events(aggregate_id) of the in-memory store
bus_get_events(evs, aggregate_id) ==
    SelectSeq(evs, LAMBDA e : e.aggregate_id = aggregate_id)

ExpectedVersions == {NoVersion} \cup 0..MaxVersion

StoreNext ==
    \/ \E p \in Procs, a \in Aggregates, x \in ExpectedVersions :
          AppendEvent(p, a, "application.updated", x)
    \/ \E p \in Procs : AppendRead(p)
    \/ \E p \in Procs : AppendInsert(p)
    \/ \E b \in Batches : AppendEventsBatch(b)

\* concurrent callers of append_event, with and without expected_version, and batches
SpecStore == StoreInit /\ [][StoreNext]_vars

SeqNext ==
    \/ \E a \in Aggregates : AppendEvent("p1", a, "application.updated", NoVersion)
    \/ AppendRead("p1")
    \/ AppendInsert("p1")
    \/ \E a \in Aggregates : BusAppend("application.updated", a)

\* one caller appending events one after another, without expected_version, to the
\* relational store and to the in-memory store
SpecSeq == StoreInit /\ [][SeqNext]_vars

(***************************************************************************)
(* C4: in every reachable state of the event store, the stored versions of *)
(* each aggregate are exactly 1..k for some k (no gap, no duplicate),      *)
(* whatever mix of append_event and append_events_batch calls was made.    *)
(***************************************************************************)
C4_Gapless ==
    \A a \in Aggregates :
        /\ VersionsOf(events, a) = 1..Cardinality(VersionsOf(events, a))
        /\ Cardinality(RowsOf(events, a)) = Cardinality(VersionsOf(events, a))

(***************************************************************************)
(* C5: N events appended one after another to one aggregate, with no       *)
(* expected_version, get the versions 1, 2, ..., N in order; afterwards    *)
(* get_aggregate_version returns N (0 when there is none) and get_events   *)
(* returns exactly those N events in strictly increasing version order.    *)
(* The in-memory event-bus store numbers an aggregate's events 1..N too.   *)
(***************************************************************************)
C5_SequentialVersions ==
    /\ \A a \in Aggregates :
          seqAuto[a].pure =>
              LET N   == seqAuto[a].calls
                  got == get_events(events, a, 0, NoVersion)
              IN  /\ seqAuto[a].versions = [i \in 1..N |-> i]
                  /\ get_aggregate_version(events, a) = N
                  /\ Len(got) = N
                  /\ \A i \in 1..N : got[i].version = i
                  /\ {got[i] : i \in 1..N} = RowsOf(events, a)
    /\ \A a \in Aggregates :
          LET got == bus_get_events(busEvents, a)
          IN  \A i \in 1..Len(got) : got[i].version = i

C5_Witness ==
    /\ seqAuto["a1"].pure
    /\ seqAuto["a1"].calls = 2
    /\ get_aggregate_version(events, "a1") = 2
    /\ get_aggregate_version(events, "a2") = 0
    /\ Len(bus_get_events(busEvents, "a2")) = 1
    /\ Len(busEvents) = 2

(***************************************************************************)
(* C6: append_event called with an expected_version different from the     *)
(* aggregate's current maximum version fails with ConcurrencyError and     *)
(* stores no event: the step that makes the check ends the call and leaves *)
(* the events table as it was.                                             *)
(***************************************************************************)
C6_StaleExpectedVersion ==
    [][\A p \in Procs :
          ( /\ procs[p].pc = "read"
            /\ (procs'[p].pc # "read" \/ procs'[p].attempt # procs[p].attempt)
            /\ procs[p].expected_version # NoVersion
            /\ procs[p].expected_version #
                   get_current_version(events, procs[p].aggregate_id) )
          => ( /\ procs'[p].pc = "done"
               /\ procs'[p].result = "ConcurrencyError"
               /\ events' = events )]_vars

\* a call with expected_version 1 on an aggregate without events has failed
C6_Witness ==
    /\ events = {}
    /\ procs["p1"].pc = "done"
    /\ procs["p1"].expected_version = 1
    /\ procs["p1"].result = "ConcurrencyError"

(***************************************************************************)
(* C7: when two append_event calls for the same aggregate carrying the     *)
(* same expected_version run concurrently, their read and insert steps     *)
(* interleaved in any order, at most one stores an event and the other     *)
(* fails with ConcurrencyError; the table never holds two events with the  *)
(* same (aggregate id, version).                                           *)
(***************************************************************************)
C7_ConcurrentAppends ==
    /\ \A e1, e2 \in events :
          (e1.aggregate_id = e2.aggregate_id /\ e1.version = e2.version) => e1 = e2
    /\ \A p, q \in Procs :
          ( /\ p # q
            /\ procs[p].pc = "done" /\ procs[q].pc = "done"
            /\ procs[p].rival /\ procs[q].rival
            /\ procs[p].aggregate_id = procs[q].aggregate_id
            /\ procs[p].expected_version = procs[q].expected_version )
          => ( /\ ~(procs[p].result = "ok" /\ procs[q].result = "ok")
               /\ (procs[p].result = "ok" => procs[q].result = "ConcurrencyError") )

\* both calls passed the version check; the insert of the second was rejected
C7_Witness ==
    /\ procs["p1"].pc = "done" /\ procs["p2"].pc = "done"
    /\ procs["p1"].rival /\ procs["p2"].rival
    /\ procs["p1"].aggregate_id = "a1" /\ procs["p2"].aggregate_id = "a1"
    /\ procs["p1"].expected_version = 0 /\ procs["p2"].expected_version = 0
    /\ procs["p1"].next_version = 1 /\ procs["p2"].next_version = 1
    /\ procs["p1"].result = "ConcurrencyError"
    /\ procs["p2"].result = "ok"
    /\ Cardinality(events) = 1

(***************************************************************************)
(* infrastructure/db/projections.py: ApplicationProjectionHandler          *)
(***************************************************************************)
\* Optional[datetime] = None
NoTime == 0
\* no application id
NoId == 0
\* coverLetter: Optional[str] = None
NoLetter == "None"

\* _handle_created: INSERT ... ON CONFLICT (id) DO UPDATE SET ...
handle_created(table, event) ==
    LET payload == event.payload
        application_data ==
            [id |-> event.aggregate_id, volunteer_id |-> payload.volunteerId,
             opportunity_id |-> payload.opportunityId, status |-> payload.status,
             cover_letter |-> payload.coverLetter,
             submitted_at |-> payload.submittedAt, reviewed_at |-> payload.reviewedAt,
             created_at |-> event.occurred_at, updated_at |-> event.occurred_at,
             version |-> event.version]
    IN  IF event.aggregate_id \in DOMAIN table
        THEN [table EXCEPT ![event.aggregate_id] =
                 [@ EXCEPT !.status = application_data.status,
                           !.cover_letter = application_data.cover_letter,
                           !.submitted_at = application_data.submitted_at,
                           !.reviewed_at = application_data.reviewed_at,
                           !.updated_at = application_data.updated_at,
                           !.version = application_data.version]]
        ELSE table @@ (event.aggregate_id :> application_data)

\* mutant of _handle_state_changed: the version is added to the row's version
handle_state_changed_mut(table, event) ==
    IF event.aggregate_id \in DOMAIN table
    THEN [table EXCEPT ![event.aggregate_id] =
             [@ EXCEPT !.status = event.payload.newState,
                       !.updated_at = event.occurred_at,
                       !.version = @ + event.version,
                       !.reviewed_at = IF event.payload.newState = "reviewing"
                                       THEN event.occurred_at ELSE @]]
    ELSE table

\* _handle_state_changed: UPDATE applications SET status, updated_at, version
\* (and reviewed_at when the new state is reviewing) WHERE id = :id
handle_state_changed(table, event) ==
    IF event.aggregate_id \in DOMAIN table
    THEN [table EXCEPT ![event.aggregate_id] =
             [@ EXCEPT !.status = event.payload.newState,
                       !.updated_at = event.occurred_at,
                       !.version = event.version,
                       !.reviewed_at = IF event.payload.newState = "reviewing"
                                       THEN event.occurred_at ELSE @]]
    ELSE table

\* update_fields of _handle_updated: the UPDATE is issued only when the payload
\* carries coverLetter or organizationId
update_fields(payload) == DOMAIN payload \cap {"coverLetter", "organizationId"}

\* _handle_updated
handle_updated(table, event) ==
    IF event.aggregate_id \in DOMAIN table /\ update_fields(event.payload) # {}
    THEN [table EXCEPT ![event.aggregate_id] =
             [@ EXCEPT !.cover_letter = IF "coverLetter" \in DOMAIN event.payload
                                        THEN event.payload.coverLetter ELSE @,
                       !.updated_at = event.occurred_at, !.version = event.version]]
    ELSE table

\* ApplicationProjectionHandler.handle_event
handle_event(table, event) ==
    IF event.aggregate_type # "Application" THEN table
    ELSE CASE event.event_type = "application.created"       -> handle_created(table, event)
           [] event.event_type = "application.state.changed" -> handle_state_changed(table, event)
           [] event.event_type = "application.updated"       -> handle_updated(table, event)
           [] OTHER                                          -> table

\* event_type.startswith('application.')
handles_event_type(event_type) ==
    event_type \in {"application.created", "application.state.changed",
                    "application.updated"}

\* ProjectionService.handle_event, on the applications table
projection_handle_event(table, event) ==
    IF handles_event_type(event.event_type) THEN handle_event(table, event) ELSE table

(***************************************************************************)
(* services/applications/repository.py: ApplicationRepository             *)
(***************************************************************************)
Backends == {"file", "postgres"}

\* the storage of a repository: what its methods read and write
Storage ==
    [cache |-> cache, dataFile |-> dataFile, events |-> events,
     applications |-> applications, eventLog |-> eventLog]

\* EventPublisher.publish: one more line in application_events.jsonl
publish(log, event_type, data) ==
    Append(log, [eventType |-> event_type, data |-> data])

\* isoformat() of a datetime field, None left as it is
isoformat(t) == IF t = NoTime THEN <<>> ELSE <<"iso", t>>

\* mutant of _save: reviewedAt is not written
save_mut(c) ==
    [id \in DOMAIN c |->
        [c[id] EXCEPT !.createdAt = isoformat(@), !.updatedAt = isoformat(@),
                      !.submittedAt = isoformat(@), !.reviewedAt = <<>>]]

\* _save: every cached application as a dictionary with its dates as ISO strings
save(c) ==
    [id \in DOMAIN c |->
        [c[id] EXCEPT !.createdAt = isoformat(@), !.updatedAt = isoformat(@),
                      !.submittedAt = isoformat(@), !.reviewedAt = isoformat(@)]]

\* Application(...) built from a row of the applications table
row_to_application(row) ==
    [id |-> row.id, volunteerId |-> row.volunteer_id,
     opportunityId |-> row.opportunity_id, status |-> row.status,
     coverLetter |-> row.cover_letter,
     submittedAt |-> row.submitted_at, reviewedAt |-> row.reviewed_at,
     createdAt |-> row.created_at, updatedAt |-> row.updated_at]

\* _get_postgres: the application as a set of none or one
get_postgres(table, application_id) ==
    IF application_id \in DOMAIN table
    THEN {row_to_application(table[application_id])} ELSE {}

\* get
repo_get(be, st, application_id) ==
    IF be = "postgres" THEN get_postgres(st.applications, application_id)
    ELSE IF application_id \in DOMAIN st.cache THEN {st.cache[application_id]} ELSE {}

\* find_by_volunteer
find_by_volunteer(be, st, volunteer_id) ==
    IF be = "postgres"
    THEN {row_to_application(st.applications[id]) :
             id \in {j \in DOMAIN st.applications :
                        st.applications[j].volunteer_id = volunteer_id}}
    ELSE {st.cache[id] : id \in {j \in DOMAIN st.cache :
                                    st.cache[j].volunteerId = volunteer_id}}

\* the payloads of the events the repository appends
created_payload(application) ==
    [applicationId |-> application.id, volunteerId |-> application.volunteerId,
     opportunityId |-> application.opportunityId, status |-> application.status,
     coverLetter |-> application.coverLetter,
     submittedAt |-> application.submittedAt, reviewedAt |-> application.reviewedAt,
     createdAt |-> application.createdAt, updatedAt |-> application.updatedAt]

state_changed_payload(application, old_status) ==
    [applicationId |-> application.id, volunteerId |-> application.volunteerId,
     opportunityId |-> application.opportunityId, previousState |-> old_status,
     newState |-> application.status, timestamp |-> application.updatedAt]

updated_payload(application) ==
    [applicationId |-> application.id, coverLetter |-> application.coverLetter,
     updatedAt |-> application.updatedAt]

\* mutant of the choice of event: every update is an application.updated
update_event_mut(application, old_status) ==
    [event_type |-> "application.updated", payload |-> updated_payload(application)]

\* the event _update_postgres appends: its type and payload
update_event(application, old_status) ==
    IF old_status # application.status
    THEN [event_type |-> "application.state.changed",
          payload |-> state_changed_payload(application, old_status)]
    ELSE [event_type |-> "application.updated", payload |-> updated_payload(application)]

\* event_store.append_event run without interruption, then
\* projection_service.handle_event on the stored event
append_and_project(st, aggregate_id, event_type, payload, expected_version) ==
    LET v == check_version(get_current_version(st.events, aggregate_id), expected_version)
        row == StoredEvent(st.events, "Application", aggregate_id, event_type,
                           v.next_version, payload)
        ins == insert_event(st.events, row)
    IN  IF v.error # None THEN [error |-> v.error, st |-> st]
        ELSE IF ins.error # None THEN [error |-> ins.error, st |-> st]
        ELSE [error |-> None,
              st |-> [st EXCEPT !.events = ins.events,
                                !.applications = projection_handle_event(@, row)]]

\* _create_postgres
create_postgres(st, application) ==
    IF get_postgres(st.applications, application.id) # {}
    THEN [error |-> "ValueError", st |-> st]
    ELSE append_and_project(st, application.id, "application.created",
                            created_payload(application), 0)

\* _create_file
create_file(st, application) ==
    IF application.id \in DOMAIN st.cache
    THEN [error |-> "ValueError", st |-> st]
    ELSE LET c == st.cache @@ (application.id :> application)
         IN  [error |-> None,
              st |-> [st EXCEPT !.cache = c, !.dataFile = save(c),
                         !.eventLog = publish(@, "application.created",
                             [applicationId |-> application.id,
                              status |-> application.status])]]

\* create
repo_create(be, st, application) ==
    IF be = "postgres" THEN create_postgres(st, application)
    ELSE create_file(st, application)

\* _update_postgres
update_postgres(st, application) ==
    LET old_application == get_postgres(st.applications, application.id)
    IN  IF old_application = {} THEN [error |-> "ValueError", st |-> st]
        ELSE LET old_status == (CHOOSE a \in old_application : TRUE).status
                 app == [application EXCEPT !.updatedAt = now]
                 current_version == get_aggregate_version(st.events, app.id)
                 e == update_event(app, old_status)
             IN  append_and_project(st, app.id, e.event_type, e.payload, current_version)

\* mutant of _update_file: an unknown application is stored
update_file_mut(st, application) ==
    LET app == [application EXCEPT !.updatedAt = now]
        c == (app.id :> app) @@ st.cache
    IN  [error |-> None, st |-> [st EXCEPT !.cache = c, !.dataFile = save(c)]]

\* _update_file
update_file(st, application) ==
    IF application.id \notin DOMAIN st.cache
    THEN [error |-> "ValueError", st |-> st]
    ELSE LET old_status == st.cache[application.id].status
             app == [application EXCEPT !.updatedAt = now]
             c == [st.cache EXCEPT ![app.id] = app]
         IN  [error |-> None,
              st |-> [st EXCEPT !.cache = c, !.dataFile = save(c),
                         !.eventLog =
                             IF old_status # app.status
                             THEN publish(@, "application.state.changed",
                                     [applicationId |-> app.id,
                                      previousState |-> old_status,
                                      newState |-> app.status])
                             ELSE @]]

\* update
repo_update(be, st, application) ==
    IF be = "postgres" THEN update_postgres(st, application)
    ELSE update_file(st, application)

(***************************************************************************)
(* services/applications/service.py: ApplicationService                    *)
(***************************************************************************)
\* the (volunteer, opportunity) ids callers submit: two opportunities of one
\* volunteer, one opportunity of two volunteers, and a missing id on either side
SubmitInputs ==
    {<<"v1", "o1">>, <<"v1", "o2">>, <<"v2", "o1">>, <<"", "o1">>, <<"v1", "">>}
\* the action names callers pass: the six known ones and an unknown one
SvcActions == {"submit", "review", "accept", "reject", "complete", "cancel", "unknown"}
\* most applications created
MaxApps == 2

\* mutant of the existing-application check: an accepted application does not block
already_exists_mut(existing_apps, opportunityId) ==
    \E app \in existing_apps :
        /\ app.opportunityId = opportunityId
        /\ app.status \notin {"rejected", "cancelled", "completed", "accepted"}

\* submit_application: the loop over the volunteer's existing applications
already_exists(existing_apps, opportunityId) ==
    \E app \in existing_apps :
        /\ app.opportunityId = opportunityId
        /\ app.status \notin {"rejected", "cancelled", "completed"}

\* Application(...) as submit_application builds it
NewApplication(id, volunteerId, opportunityId) ==
    [id |-> id, volunteerId |-> volunteerId, opportunityId |-> opportunityId,
     status |-> "submitted", coverLetter |-> NoLetter, submittedAt |-> now, reviewedAt |-> NoTime,
     createdAt |-> now, updatedAt |-> now]

\* mutant of update_application_state: the action is applied without asking
\* can_transition
apply_action_nocheck(application, action) ==
    IF action_to_state(action) = None
    THEN [error |-> "ValueError", application |-> application]
    ELSE [error |-> None,
          application |->
              [application EXCEPT
                  !.status = action_to_state(action),
                  !.updatedAt = now,
                  !.reviewedAt = IF action_to_state(action) = "reviewing" THEN now ELSE @]]

\* mutant of update_application_state: every transition stamps reviewedAt
apply_action_mut(application, action) ==
    IF ~can_transition(application.status, action)
    THEN [error |-> "ValueError", application |-> application]
    ELSE [error |-> None,
          application |->
              [application EXCEPT
                  !.status = transition(application.status, action).state,
                  !.updatedAt = now,
                  !.reviewedAt = now]]

\* update_application_state, from the state machine to the timestamps: the
\* application as the service hands it to repository.update
apply_action(application, action) ==
    IF ~can_transition(application.status, action)
    THEN [error |-> "ValueError", application |-> application]
    ELSE LET state == transition(application.status, action).state
         IN  [error |-> None,
              application |->
                  [application EXCEPT
                      !.status = state,
                      !.updatedAt = now,
                      !.reviewedAt = IF state = "reviewing" THEN now ELSE @,
                      !.submittedAt = IF state = "submitted" /\ @ = NoTime
                                      THEN now ELSE @]]

\* on the file backend get() returns the cached object itself: what the service
\* assigns to it is in the cache before repository.update is called
mutate_in_place(be, st, application) ==
    IF be = "file" THEN [st EXCEPT !.cache[application.id] = application] ELSE st

\* mutant of _handle_completion: the completion event first
handle_completion_mut(log, application) ==
    publish(publish(log, "application.completed",
                    [applicationId |-> application.id, volunteerId |-> application.volunteerId,
                     opportunityId |-> application.opportunityId]),
            "points.award",
            [applicationId |-> application.id,
             volunteerId |-> application.volunteerId, points |-> 100])

\* _handle_completion
handle_completion(log, application) ==
    publish(publish(log, "points.award",
                    [applicationId |-> application.id,
                     volunteerId |-> application.volunteerId, points |-> 100]),
            "application.completed",
            [applicationId |-> application.id, volunteerId |-> application.volunteerId,
             opportunityId |-> application.opportunityId])

\* a service call: its name, the ids it was given and its outcome
SvcCall(op, application_id, volunteerId, opportunityId, result) ==
    [op |-> op, application_id |-> application_id, volunteerId |-> volunteerId,
     opportunityId |-> opportunityId, result |-> result]

SvcInit ==
    /\ backend \in Backends
    /\ cache = <<>>
    /\ dataFile = <<>>
    /\ applications = <<>>
    /\ eventLog = <<>>
    /\ nextId = 1
    /\ svcLast = SvcCall("init", NoId, None, None, None)
    /\ ops = <<>>
    /\ events = {}
    /\ now = 1
    /\ procs = <<>>
    /\ lastBatch = None
    /\ seqAuto = <<>>
    /\ busEvents = <<>>
    /\ SMAndRetryUnused
    /\ ProjUnused
    /\ repoLast = Unused
    /\ ExtraUnused
    /\ MatchUnused

\* the storage after the call
SetStorage(st) ==
    /\ cache' = st.cache
    /\ dataFile' = st.dataFile
    /\ events' = st.events
    /\ applications' = st.applications
    /\ eventLog' = st.eventLog

\* submit_application(SubmitApplicationCommand(volunteerId, opportunityId))
SubmitApplication(volunteerId, opportunityId) ==
    LET existing_apps == find_by_volunteer(backend, Storage, volunteerId)
        invalid ==
            IF volunteerId = "" THEN "Volunteer ID is required"
            ELSE IF opportunityId = "" THEN "Opportunity ID is required"
            ELSE IF already_exists(existing_apps, opportunityId)
            THEN "Application already exists"
            ELSE None
        application == NewApplication(nextId, volunteerId, opportunityId)
        created == repo_create(backend, Storage, application)
    IN  IF invalid # None
        THEN /\ svcLast' = SvcCall("submit_application", NoId, volunteerId,
                                   opportunityId, invalid)
             /\ UNCHANGED <<backend, cache, dataFile, applications, eventLog, nextId,
                            ops, events, now, otherThanApp>>
        ELSE /\ nextId <= MaxApps
             /\ IF created.error # None
                THEN /\ SetStorage(created.st)
                     /\ svcLast' = SvcCall("submit_application", NoId, volunteerId,
                                           opportunityId, created.error)
                ELSE /\ SetStorage([created.st EXCEPT !.eventLog =
                            publish(@, "application.submitted",
                                    [applicationId |-> application.id,
                                     volunteerId |-> volunteerId,
                                     opportunityId |-> opportunityId])])
                     /\ svcLast' = SvcCall("submit_application", application.id,
                                           volunteerId, opportunityId, "ok")
             /\ nextId' = nextId + 1
             /\ UNCHANGED <<backend, ops, now, otherThanApp>>

\* update_application_state(application_id, action)
UpdateApplicationState(application_id, action) ==
    LET got == repo_get(backend, Storage, application_id)
        application == CHOOSE a \in got : TRUE
        r == apply_action(application, action)
        updated == repo_update(backend, mutate_in_place(backend, Storage, r.application),
                               r.application)
        failed(error) ==
            /\ svcLast' = SvcCall("update_application_state", application_id, None,
                                  None, error)
            /\ UNCHANGED <<backend, cache, dataFile, applications, eventLog, nextId,
                           ops, events, now, otherThanApp>>
    IN  IF got = {} THEN failed("not found")
        ELSE IF r.error # None THEN failed(r.error)
        ELSE /\ IF updated.error # None
                THEN /\ SetStorage(updated.st)
                     /\ svcLast' = SvcCall("update_application_state", application_id,
                                           None, None, updated.error)
                ELSE /\ SetStorage(
                            IF r.application.status = "completed"
                            THEN [updated.st EXCEPT !.eventLog =
                                     handle_completion(@, r.application)]
                            ELSE updated.st)
                     /\ svcLast' = SvcCall("update_application_state", application_id,
                                           None, None, "ok")
             /\ UNCHANGED <<backend, nextId, ops, now, otherThanApp>>

SvcNext ==
    \/ \E c \in SubmitInputs : SubmitApplication(c[1], c[2])
    \/ \E id \in 1..MaxApps, action \in SvcActions : UpdateApplicationState(id, action)

\* service calls made one after another, on either backend
SpecSvc == SvcInit /\ [][SvcNext]_vars

\* the applications a repository holds
StoredApps(be, c, table) ==
    IF be = "postgres" THEN {row_to_application(table[id]) : id \in DOMAIN table}
    ELSE {c[id] : id \in DOMAIN c}

(***************************************************************************)
(* C2: once the stored status of an application is rejected, completed or  *)
(* cancelled, every step of the service leaves that status as it is, and   *)
(* an update_application_state call on the application fails, whatever the *)
(* action (service calls made one after another).                          *)
(***************************************************************************)
C2_TerminalPermanent ==
    [][\A a \in StoredApps(backend, cache, applications) :
          a.status \in {"rejected", "completed", "cancelled"} =>
              /\ \E b \in StoredApps(backend', cache', applications') :
                    b.id = a.id /\ b.status = a.status
              /\ ( /\ svcLast' # svcLast
                   /\ svcLast'.op = "update_application_state"
                   /\ svcLast'.application_id = a.id )
                 => svcLast'.result = "ValueError"]_vars

\* an update of a rejected application has failed, on the relational backend
C2_Witness ==
    /\ backend = "postgres"
    /\ svcLast.op = "update_application_state"
    /\ svcLast.result = "ValueError"
    /\ \E a \in StoredApps(backend, cache, applications) :
          a.id = svcLast.application_id /\ a.status = "rejected"

(***************************************************************************)
(* C3: for non-empty ids, submit_application(volunteer, opportunity) fails *)
(* with 'Application already exists' exactly when a stored application of  *)
(* that pair has a status other than rejected, cancelled or completed, and *)
(* otherwise stores one new application in status submitted; in every      *)
(* state at most one application of a pair is in a non-terminal status     *)
(* (service calls made one after another).                                 *)
(***************************************************************************)
C3_Active(apps, volunteerId, opportunityId) ==
    {a \in apps : /\ a.volunteerId = volunteerId
                  /\ a.opportunityId = opportunityId
                  /\ a.status \notin {"rejected", "cancelled", "completed"}}

C3_AtMostOne ==
    \A c \in SubmitInputs :
        Cardinality({a.id : a \in C3_Active(StoredApps(backend, cache, applications),
                                            c[1], c[2])}) <= 1

C3_DuplicatePrevention ==
    /\ []C3_AtMostOne
    /\ [][( /\ svcLast' # svcLast
            /\ svcLast'.op = "submit_application"
            /\ svcLast'.volunteerId # "" /\ svcLast'.opportunityId # "" )
          => LET before == StoredApps(backend, cache, applications)
                 after  == StoredApps(backend', cache', applications')
                 dup    == C3_Active(before, svcLast'.volunteerId,
                                     svcLast'.opportunityId) # {}
             IN  /\ (svcLast'.result = "Application already exists") <=> dup
                 /\ dup => after = before
                 /\ ~dup =>
                       /\ svcLast'.result = "ok"
                       /\ \E a \in after :
                             /\ a.id = svcLast'.application_id
                             /\ a.volunteerId = svcLast'.volunteerId
                             /\ a.opportunityId = svcLast'.opportunityId
                             /\ a.status = "submitted"
                             /\ \A b \in before : b.id # a.id
                             /\ after = before \cup {a}]_vars

\* after the first application of a pair was cancelled a second one was stored,
\* and a third submission of the pair has been refused (file backend)
C3_Witness ==
    /\ backend = "file"
    /\ svcLast.op = "submit_application"
    /\ svcLast.volunteerId = "v1" /\ svcLast.opportunityId = "o1"
    /\ svcLast.result = "Application already exists"
    /\ \E a, b \in StoredApps(backend, cache, applications) :
          /\ a.volunteerId = "v1" /\ a.opportunityId = "o1" /\ a.status = "cancelled"
          /\ b.volunteerId = "v1" /\ b.opportunityId = "o1" /\ b.status = "submitted"

(***************************************************************************)
(* update_application_state on the relational backend, step by step: the   *)
(* calls of several callers overlap, each await being a step of its own    *)
(***************************************************************************)
\* most rows of the events table in this specification
MaxRepoEvents == 4

IdleOp ==
    [pc |-> "idle", application_id |-> NoId, action |-> None, application |-> {},
     old_status |-> None, current_version |-> NoVersion, next_version |-> NoVersion,
     event |-> {}, result |-> None, second |-> FALSE]

\* a finished call and its outcome
DoneOp(op, result) == [op EXCEPT !.pc = "done", !.result = result]

EmptyStorage ==
    [cache |-> <<>>, dataFile |-> <<>>, events |-> {}, applications |-> <<>>,
     eventLog |-> <<>>]

\* the state after submit_application("v1", "o1") on the relational backend
RepoInit ==
    /\ now = 1
    /\ backend = "postgres"
    /\ LET application == NewApplication(1, "v1", "o1")
           created == create_postgres(EmptyStorage, application)
       IN  /\ events = created.st.events
           /\ applications = created.st.applications
           /\ eventLog = publish(<<>>, "application.submitted",
                                 [applicationId |-> 1, volunteerId |-> "v1",
                                  opportunityId |-> "o1"])
    /\ cache = <<>>
    /\ dataFile = <<>>
    /\ nextId = 2
    /\ svcLast = [op |-> "unused"]
    /\ ops = [p \in Procs |-> IdleOp]
    /\ procs = <<>>
    /\ lastBatch = None
    /\ seqAuto = <<>>
    /\ busEvents = <<>>
    /\ SMAndRetryUnused
    /\ ProjUnused
    /\ repoLast = Unused
    /\ ExtraUnused
    /\ MatchUnused

OpActive(p) == ops[p].pc \notin {"idle", "done"}

\* the calls that have read their application and not yet appended their event
Pending(application_id) ==
    {q \in Procs : /\ ops[q].application_id = application_id
                   /\ ops[q].pc \in {"reread", "version", "append_read",
                                     "append_insert"}}

\* update_application_state up to repository.update: repository.get, the state
\* machine, the new status and timestamps
UpdGet(p, application_id, action) ==
    /\ ~OpActive(p)
    /\ Cardinality(events) + Cardinality({q \in Procs : OpActive(q)}) < MaxRepoEvents
    /\ LET got == get_postgres(applications, application_id)
           r == apply_action(CHOOSE a \in got : TRUE, action)
           call == [IdleOp EXCEPT !.application_id = application_id, !.action = action]
       IN  ops' = [ops EXCEPT ![p] =
               IF got = {} THEN DoneOp(call, "not found")
               ELSE IF r.error # None THEN DoneOp(call, r.error)
               ELSE [call EXCEPT !.pc = "reread", !.application = {r.application}]]
    /\ UNCHANGED <<backend, cache, dataFile, applications, eventLog, nextId, svcLast,
                   events, now, otherThanApp>>

\* _update_postgres: old_application = await self._get_postgres(application.id)
UpdReread(p) ==
    /\ ops[p].pc = "reread"
    /\ LET old_application == get_postgres(applications, ops[p].application_id)
       IN  ops' = [ops EXCEPT ![p] =
               IF old_application = {} THEN DoneOp(@, "ValueError")
               ELSE [@ EXCEPT !.pc = "version",
                              !.old_status = (CHOOSE a \in old_application : TRUE).status,
                              !.application =
                                  {[a EXCEPT !.updatedAt = now] : a \in @}]]
    /\ UNCHANGED <<backend, cache, dataFile, applications, eventLog, nextId, svcLast,
                   events, now, otherThanApp>>

\* _update_postgres: current_version = await self.event_store.get_aggregate_version(..)
UpdVersion(p) ==
    /\ ops[p].pc = "version"
    /\ ops' = [ops EXCEPT ![p] =
           [@ EXCEPT !.pc = "append_read",
                     !.current_version =
                         get_aggregate_version(events, ops[p].application_id)]]
    /\ UNCHANGED <<backend, cache, dataFile, applications, eventLog, nextId, svcLast,
                   events, now, otherThanApp>>

\* append_event(expected_version=current_version): the version check of _append
UpdAppendRead(p) ==
    /\ ops[p].pc = "append_read"
    /\ LET r == check_version(get_current_version(events, ops[p].application_id),
                              ops[p].current_version)
       IN  ops' = [ops EXCEPT ![p] =
               IF r.error # None THEN DoneOp(@, r.error)
               ELSE [@ EXCEPT !.pc = "append_insert", !.next_version = r.next_version]]
    /\ UNCHANGED <<backend, cache, dataFile, applications, eventLog, nextId, svcLast,
                   events, now, otherThanApp>>

\* append_event: the INSERT of _append and the commit of its session; the calls that
\* have read the same application and not yet appended are marked as second (history)
UpdAppendInsert(p) ==
    /\ ops[p].pc = "append_insert"
    /\ LET me  == ops[p]
           e   == update_event(CHOOSE a \in me.application : TRUE, me.old_status)
           row == StoredEvent(events, "Application", me.application_id, e.event_type,
                              me.next_version, e.payload)
           r   == insert_event(events, row)
       IN  /\ events' = r.events
           /\ ops' = [q \in Procs |->
                 IF q = p
                 THEN IF r.error # None THEN DoneOp(me, r.error)
                      ELSE [me EXCEPT !.pc = "project", !.event = {row}]
                 ELSE IF r.error = None /\ q \in Pending(me.application_id)
                 THEN [ops[q] EXCEPT !.second = TRUE]
                 ELSE ops[q]]
    /\ UNCHANGED <<backend, cache, dataFile, applications, eventLog, nextId, svcLast,
                   now, otherThanApp>>

\* _update_postgres: await self.projection_service.handle_event(event); then
\* update_application_state returns, unless the new status is completed
UpdProject(p) ==
    /\ ops[p].pc = "project"
    /\ applications' = projection_handle_event(applications,
                                               CHOOSE e \in ops[p].event : TRUE)
    /\ ops' = [ops EXCEPT ![p] =
           IF (CHOOSE a \in @.application : TRUE).status = "completed"
           THEN [@ EXCEPT !.pc = "completion"]
           ELSE DoneOp(@, "ok")]
    /\ UNCHANGED <<backend, cache, dataFile, eventLog, nextId, svcLast, events, now,
                   otherThanApp>>

\* update_application_state: await self._handle_completion(application)
UpdCompletion(p) ==
    /\ ops[p].pc = "completion"
    /\ eventLog' = handle_completion(eventLog, CHOOSE a \in ops[p].application : TRUE)
    /\ ops' = [ops EXCEPT ![p] = DoneOp(@, "ok")]
    /\ UNCHANGED <<backend, cache, dataFile, applications, nextId, svcLast, events, now,
                   otherThanApp>>

\* the action names the racing callers pass
RepoActions == {"review", "accept", "reject", "complete", "cancel"}

RepoNext ==
    \/ \E p \in Procs, id \in 1..2, action \in RepoActions : UpdGet(p, id, action)
    \/ \E p \in Procs : UpdReread(p)
    \/ \E p \in Procs : UpdVersion(p)
    \/ \E p \in Procs : UpdAppendRead(p)
    \/ \E p \in Procs : UpdAppendInsert(p)
    \/ \E p \in Procs : UpdProject(p)
    \/ \E p \in Procs : UpdCompletion(p)

\* overlapping update_application_state calls on the relational backend
SpecRepo == RepoInit /\ [][RepoNext]_vars

(***************************************************************************)
(* C8: on the relational backend, when two update operations on the same   *)
(* application overlap, both having read the application before either     *)
(* appends its event, the one that appends second is rejected with         *)
(* ConcurrencyError: it stores no event.                                   *)
(***************************************************************************)
C8_NoLostUpdate ==
    \A p \in Procs :
        ops[p].second =>
            /\ ops[p].pc \notin {"project", "completion"}
            /\ ops[p].pc = "done" => ops[p].result = "ConcurrencyError"

(***************************************************************************)
(* infrastructure/db/projections.py: MatchSuggestionProjectionHandler,    *)
(* ProjectionService over both tables, rebuild_from_events                 *)
(***************************************************************************)
\* MatchSuggestionProjectionHandler._handle_created: INSERT ... ON CONFLICT (id)
\* DO UPDATE SET score, score_components, explanation, status
suggestion_handle_created(table, event) ==
    LET payload == event.payload
        suggestion_data ==
            [id |-> event.aggregate_id, volunteer_id |-> payload.volunteerId,
             opportunity_id |-> payload.opportunityId, score |-> payload.score,
             status |-> IF "status" \in DOMAIN payload THEN payload.status ELSE "active",
             created_at |-> event.occurred_at]
    IN  IF event.aggregate_id \in DOMAIN table
        THEN [table EXCEPT ![event.aggregate_id] =
                 [@ EXCEPT !.score = suggestion_data.score,
                           !.status = suggestion_data.status]]
        ELSE table @@ (event.aggregate_id :> suggestion_data)

\* MatchSuggestionProjectionHandler._handle_status_changed
suggestion_handle_status_changed(table, event) ==
    IF event.aggregate_id \in DOMAIN table
    THEN [table EXCEPT ![event.aggregate_id] = [@ EXCEPT !.status = event.payload.newStatus]]
    ELSE table

\* MatchSuggestionProjectionHandler.handle_event
suggestion_handle_event(table, event) ==
    IF event.aggregate_type # "MatchSuggestion" THEN table
    ELSE CASE event.event_type = "match.suggestion.created" ->
                  suggestion_handle_created(table, event)
           [] event.event_type = "match.suggestion.status.changed" ->
                  suggestion_handle_status_changed(table, event)
           [] OTHER -> table

\* event_type.startswith('match.') or event_type.startswith('suggestion.')
suggestion_handles_event_type(event_type) ==
    event_type \in {"match.suggestion.created", "match.suggestion.status.changed"}

\* the two projection tables
Tables == [applications |-> applications, suggestions |-> suggestions]

\* ProjectionService.handle_event: every handler that handles the event type
service_handle_event(tabs, event) ==
    [applications |-> projection_handle_event(tabs.applications, event),
     suggestions |-> IF suggestion_handles_event_type(event.event_type)
                     THEN suggestion_handle_event(tabs.suggestions, event)
                     ELSE tabs.suggestions]

\* the aggregates and the events handed to the projection service
ProjIds == {1, 2}
SuggestionIds == {11}
Letters == {"L1", "L2"}

ProjEvent(aggregate_type, aggregate_id, event_type, version, payload) ==
    [event_id |-> <<aggregate_id, version, 0>>, aggregate_type |-> aggregate_type,
     aggregate_id |-> aggregate_id, event_type |-> event_type,
     occurred_at |-> 1, version |-> version, payload |-> payload,
     contracts_version |-> "1.0.0"]

ApplicationEvents ==
    UNION {{ProjEvent("Application", id, "application.created", 1,
                created_payload([NewApplication(id, "v1", "o1") EXCEPT
                                    !.coverLetter = "L1", !.submittedAt = 1,
                                    !.createdAt = 1, !.updatedAt = 1])),
            ProjEvent("Application", id, "application.state.changed", 2,
                [applicationId |-> id, volunteerId |-> "v1", opportunityId |-> "o1",
                 previousState |-> "submitted", newState |-> "reviewing",
                 timestamp |-> 1]),
            ProjEvent("Application", id, "application.updated", 3,
                [applicationId |-> id, coverLetter |-> "L2", updatedAt |-> 1])}
           : id \in ProjIds}

SuggestionEvents ==
    UNION {{ProjEvent("MatchSuggestion", id, "match.suggestion.created", 1,
                [volunteerId |-> "v1", opportunityId |-> "o1", score |-> 80,
                 status |-> "pending"]),
            ProjEvent("MatchSuggestion", id, "match.suggestion.status.changed", 2,
                [newStatus |-> "accepted"])}
           : id \in SuggestionIds}

\* an event no handler handles
OtherEvents == {ProjEvent("User", 1, "user.registered", 1, [userId |-> 1])}

ProjEvents == ApplicationEvents \cup SuggestionEvents \cup OtherEvents

\* sorted(events, key=lambda e: (e.aggregate_id, e.version)): a stable sort
key_le(a, b) ==
    \/ a.aggregate_id < b.aggregate_id
    \/ a.aggregate_id = b.aggregate_id /\ a.version <= b.version

RECURSIVE sorted(_)
sorted(evs) ==
    IF evs = <<>> THEN <<>>
    ELSE LET front == sorted(SubSeq(evs, 1, Len(evs) - 1))
             e == evs[Len(evs)]
             k == Cardinality({i \in 1..Len(front) : key_le(front[i], e)})
         IN  SubSeq(front, 1, k) \o <<e>> \o SubSeq(front, k + 1, Len(front))

\* the handler of an aggregate type applied to its table
handler_handle_event(aggregate_type, table, event) ==
    IF aggregate_type = "Application" THEN handle_event(table, event)
    ELSE suggestion_handle_event(table, event)

\* handle_event of the handler executes a statement on the row of the aggregate
executes_statement(aggregate_type, event) ==
    /\ event.aggregate_type = aggregate_type
    /\ IF aggregate_type = "Application"
       THEN \/ event.event_type \in {"application.created", "application.state.changed"}
            \/ event.event_type = "application.updated" /\ update_fields(event.payload) # {}
       ELSE event.event_type \in {"match.suggestion.created",
                                  "match.suggestion.status.changed"}

\* the loop of rebuild_from_events. The DELETE of the outer session is not
\* committed while the loop runs, and handle_event opens a session of its own
\* (get_session), so a statement on a row the DELETE has removed waits for the
\* outer transaction, which itself waits for the loop
RECURSIVE rebuild_loop(_, _, _, _)
rebuild_loop(aggregate_type, table, deleted, evs) ==
    IF evs = <<>> THEN [blocked |-> FALSE, table |-> table]
    ELSE LET event == Head(evs)
         IN  IF event.aggregate_type # aggregate_type
             THEN rebuild_loop(aggregate_type, table, deleted, Tail(evs))
             ELSE IF executes_statement(aggregate_type, event)
                     /\ event.aggregate_id \in deleted
             THEN [blocked |-> TRUE, table |-> table]
             ELSE rebuild_loop(aggregate_type,
                               handler_handle_event(aggregate_type, table, event),
                               deleted, Tail(evs))

\* rebuild_from_events of the handler of an aggregate type: DELETE FROM the
\* table, the loop over the sorted events, and the commit of the DELETE when the
\* outer session is left
rebuild_from_events(aggregate_type, table, evs) ==
    LET deleted == DOMAIN table
        run == rebuild_loop(aggregate_type, table, deleted, sorted(evs))
    IN  IF run.blocked THEN [result |-> "blocked", table |-> run.table]
        ELSE [result |-> "done",
              table |-> [id \in DOMAIN run.table \ deleted |-> run.table[id]]]

\* the lists of events handed to rebuild_from_events
MaxRebuildEvents == 2
RebuildEvents == ApplicationEvents \cup SuggestionEvents
RebuildInputs ==
    {evs \in UNION {[1..n -> RebuildEvents] : n \in 0..MaxRebuildEvents} :
        \A i, j \in 1..Len(evs) : i # j => evs[i] # evs[j]}

\* --- the projection service called with events and rebuilds, one call at a time
ProjCall(op, evs, result, before, again) ==
    [op |-> op, events |-> evs, result |-> result, before |-> before, again |-> again]

ProjInit ==
    /\ suggestions = <<>>
    /\ projLast = ProjCall("none", <<>>, "done", {}, FALSE)
    /\ repoLast = Unused
    /\ ExtraUnused
    /\ MatchUnused
    /\ StoreUnused
    /\ AppUnused
    /\ SMAndRetryUnused

\* a rebuild that waits for its own DELETE never returns
ProjBlocked == projLast.result = "blocked"

\* ProjectionService.handle_event(event)
HandleEvent(event) ==
    /\ ~ProjBlocked
    /\ LET tabs == service_handle_event(Tables, event)
       IN  /\ applications' = tabs.applications
           /\ suggestions' = tabs.suggestions
    /\ projLast' = ProjCall("handle_event", <<event>>, "done", DOMAIN applications,
                            projLast.op = "handle_event" /\ projLast.events = <<event>>)
    /\ UNCHANGED <<smVars, retryVars, storeVars, backend, cache, dataFile, eventLog,
                   nextId, svcLast, ops, repoLast, matchVars, extraVars>>

\* ApplicationProjectionHandler.rebuild_from_events(events)
RebuildFromEvents(evs) ==
    /\ ~ProjBlocked
    /\ LET r == rebuild_from_events("Application", applications, evs)
       IN  /\ applications' = r.table
           /\ projLast' = ProjCall("rebuild_from_events", evs, r.result,
                                   DOMAIN applications, FALSE)
    /\ UNCHANGED <<smVars, retryVars, storeVars, backend, cache, dataFile, eventLog,
                   nextId, svcLast, ops, suggestions, repoLast, matchVars, extraVars>>

ProjNext ==
    \/ \E event \in ProjEvents : HandleEvent(event)
    \/ \E evs \in RebuildInputs : RebuildFromEvents(evs)

SpecProj == ProjInit /\ [][ProjNext]_vars

\* C11: for every event and every projection state, handling the event a second
\* time in a row leaves both projection tables as the first handling left them
C11_Idempotent ==
    \A event \in ProjEvents :
        service_handle_event(service_handle_event(Tables, event), event)
            = service_handle_event(Tables, event)

\* an application.state.changed event was handled twice in a row on its row
C11_Witness ==
    /\ projLast.op = "handle_event"
    /\ projLast.again
    /\ projLast.events[1].event_type = "application.state.changed"
    /\ projLast.events[1].aggregate_id \in DOMAIN applications
    /\ applications[projLast.events[1].aggregate_id].version = 2

\* the orders of a list of events that are sorted by (aggregate id, version)
C12_Orders(evs) ==
    {o \in [1..Len(evs) -> {evs[i] : i \in 1..Len(evs)}] :
        /\ \A i, j \in 1..Len(evs) : i # j => o[i] # o[j]
        /\ \A i, j \in 1..Len(evs) : i < j => key_le(o[i], o[j])}

\* the events replayed in order onto a table
RECURSIVE C12_Replay(_, _)
C12_Replay(table, evs) ==
    IF evs = <<>> THEN table
    ELSE C12_Replay(handle_event(table, Head(evs)), Tail(evs))

\* C12: rebuild_from_events(events) terminates and leaves the applications table
\* equal to the replay of exactly those events, in (aggregate id, version)
\* order, onto an empty table
C12_RebuildReplays ==
    projLast.op = "rebuild_from_events" =>
        /\ projLast.result = "done"
        /\ \E o \in C12_Orders(projLast.events) : applications = C12_Replay(<<>>, o)

(***************************************************************************)
(* ProjectionService.rebuild_all_projections and                           *)
(* rebuild_projections_from_timestamp over the event log                   *)
(***************************************************************************)
MaxLogEvents == 2
MaxClock == 2

\* the lists a SELECT ... ORDER BY occurred_at may return for a set of rows: rows
\* with equal occurred_at come in any order
OrderByOccurredAt(rows) ==
    {o \in [1..Cardinality(rows) -> rows] :
        /\ \A i, j \in 1..Cardinality(rows) : i # j => o[i] # o[j]
        /\ \A i, j \in 1..Cardinality(rows) : i < j => o[i].occurred_at <= o[j].occurred_at}

\* mutant of get_all_events: from_timestamp is not applied
get_all_events_mut(evs, aggregate_type, from_timestamp) ==
    OrderByOccurredAt({e \in evs : aggregate_type # None => e.aggregate_type = aggregate_type})

\* get_all_events(aggregate_type, from_timestamp), without LIMIT
get_all_events(evs, aggregate_type, from_timestamp) ==
    OrderByOccurredAt({e \in evs :
        /\ aggregate_type # None => e.aggregate_type = aggregate_type
        /\ from_timestamp # NoTime => e.occurred_at >= from_timestamp})

\* [e for e in all_events if e.aggregate_type == ...]
of_aggregate_type(all_events, aggregate_type) ==
    SelectSeq(all_events, LAMBDA e : e.aggregate_type = aggregate_type)

\* rebuild_all_projections, given the list get_all_events() returned: a handler
\* is rebuilt only when the log holds events of its aggregate type, and the match
\* suggestions are reached only when the application rebuild returns
rebuild_all_projections(tabs, all_events) ==
    LET application_events == of_aggregate_type(all_events, "Application")
        match_events == of_aggregate_type(all_events, "MatchSuggestion")
        app == IF application_events # <<>>
               THEN rebuild_from_events("Application", tabs.applications, application_events)
               ELSE [result |-> "done", table |-> tabs.applications]
        sug == IF match_events # <<>>
               THEN rebuild_from_events("MatchSuggestion", tabs.suggestions, match_events)
               ELSE [result |-> "done", table |-> tabs.suggestions]
    IN  IF app.result = "blocked"
        THEN [result |-> "blocked",
              tables |-> [applications |-> app.table, suggestions |-> tabs.suggestions]]
        ELSE [result |-> sug.result,
              tables |-> [applications |-> app.table, suggestions |-> sug.table]]

\* rebuild_projections_from_timestamp, given the list get_all_events returned:
\* handle_event on every event, each in a transaction of its own
RECURSIVE rebuild_projections_from_timestamp(_, _)
rebuild_projections_from_timestamp(tabs, evs) ==
    IF evs = <<>> THEN tabs
    ELSE rebuild_projections_from_timestamp(service_handle_event(tabs, Head(evs)), Tail(evs))

\* the events appended to the log
LogInputs ==
    UNION {{[aggregate_type |-> "Application", aggregate_id |-> id,
             event_type |-> "application.created",
             payload |-> created_payload(NewApplication(id, "v1", "o1"))],
            [aggregate_type |-> "Application", aggregate_id |-> id,
             event_type |-> "application.state.changed",
             payload |-> [applicationId |-> id, volunteerId |-> "v1",
                          opportunityId |-> "o1", previousState |-> "submitted",
                          newState |-> "reviewing", timestamp |-> now]]}
           : id \in ProjIds}
    \cup {[aggregate_type |-> "MatchSuggestion", aggregate_id |-> id,
           event_type |-> "match.suggestion.created",
           payload |-> [volunteerId |-> "v1", opportunityId |-> "o1", score |-> 80,
                        status |-> "pending"]] : id \in SuggestionIds}

\* the projection service of an empty database, the clock running
LogInit ==
    /\ events = {}
    /\ now = 1
    /\ applications = <<>>
    /\ suggestions = <<>>
    /\ projLast = ProjCall("none", <<>>, "done", {}, FALSE)
    /\ procs = <<>>
    /\ lastBatch = None
    /\ seqAuto = <<>>
    /\ busEvents = <<>>
    /\ backend = None
    /\ cache = <<>>
    /\ dataFile = <<>>
    /\ eventLog = <<>>
    /\ nextId = 0
    /\ svcLast = Unused
    /\ ops = <<>>
    /\ repoLast = Unused
    /\ ExtraUnused
    /\ MatchUnused
    /\ SMAndRetryUnused

logFrame == <<smVars, retryVars, procs, lastBatch, seqAuto, busEvents, backend, cache,
              dataFile, eventLog, nextId, svcLast, ops, repoLast, matchVars, extraVars>>

\* time passes
Tick ==
    /\ ~ProjBlocked
    /\ now < MaxClock
    /\ now' = now + 1
    /\ UNCHANGED <<events, applications, suggestions, projLast, logFrame>>

\* event_store.append_event with no expected version, the projections not told:
\* the log as an import or an interrupted writer leaves it
LogAppend(input) ==
    /\ ~ProjBlocked
    /\ Cardinality(events) < MaxLogEvents
    /\ LET v == check_version(get_current_version(events, input.aggregate_id), NoVersion)
           row == StoredEvent(events, input.aggregate_type, input.aggregate_id,
                              input.event_type, v.next_version, input.payload)
           ins == insert_event(events, row)
       IN  /\ v.error = None /\ ins.error = None
           /\ events' = ins.events
           /\ projLast' = ProjCall("append_event", <<row>>, "done", {}, FALSE)
    /\ UNCHANGED <<now, applications, suggestions, logFrame>>

\* ProjectionService.handle_event on an event, stored or not
ProjectEvent(event) ==
    /\ ~ProjBlocked
    /\ LET tabs == service_handle_event(Tables, event)
       IN  /\ applications' = tabs.applications
           /\ suggestions' = tabs.suggestions
    /\ projLast' = ProjCall("handle_event", <<event>>, "done", {}, FALSE)
    /\ UNCHANGED <<now, events, logFrame>>

\* ProjectionService.rebuild_all_projections()
RebuildAllProjections ==
    /\ ~ProjBlocked
    /\ \E all_events \in get_all_events(events, None, NoTime) :
          LET r == rebuild_all_projections(Tables, all_events)
          IN  /\ applications' = r.tables.applications
              /\ suggestions' = r.tables.suggestions
              /\ projLast' = ProjCall("rebuild_all_projections", all_events, r.result,
                                      DOMAIN applications \cup DOMAIN suggestions, FALSE)
    /\ UNCHANGED <<now, events, logFrame>>

\* ProjectionService.rebuild_projections_from_timestamp(from_timestamp)
RebuildFromTimestamp(from_timestamp) ==
    /\ ~ProjBlocked
    /\ \E evs \in get_all_events(events, None, from_timestamp) :
          LET tabs == rebuild_projections_from_timestamp(Tables, evs)
          IN  /\ applications' = tabs.applications
              /\ suggestions' = tabs.suggestions
              /\ projLast' = ProjCall("rebuild_projections_from_timestamp", evs, "done",
                                      [from_timestamp |-> from_timestamp,
                                       tables |-> Tables], FALSE)
    /\ UNCHANGED <<now, events, logFrame>>

\* the created events handed to handle_event without being stored
CreatedEvents ==
    {e \in ProjEvents :
        e.event_type \in {"application.created", "match.suggestion.created"}}

RebuildAllNext ==
    \/ \E input \in LogInputs : LogAppend(input)
    \/ \E event \in CreatedEvents : ProjectEvent(event)
    \/ RebuildAllProjections

SpecRebuildAll == LogInit /\ [][RebuildAllNext]_vars

FromTimestampNext ==
    \/ Tick
    \/ \E input \in LogInputs : LogAppend(input)
    \/ \E event \in events : ProjectEvent(event)
    \/ \E from_timestamp \in 1..MaxClock : RebuildFromTimestamp(from_timestamp)

SpecFromTimestamp == LogInit /\ [][FromTimestampNext]_vars

\* the aggregate has an event of the aggregate type in the log
C13_InLog(aggregate_type, id) ==
    \E e \in events : e.aggregate_type = aggregate_type /\ e.aggregate_id = id

\* C13: after rebuild_all_projections completes, every row of applications and
\* of match_suggestions belongs to an aggregate that has an event in the log,
\* whatever the log holds
C13_OnlyLogRows ==
    projLast.op = "rebuild_all_projections" /\ projLast.result = "done" =>
        /\ \A id \in DOMAIN applications : C13_InLog("Application", id)
        /\ \A id \in DOMAIN suggestions : C13_InLog("MatchSuggestion", id)

\* C14: rebuild_projections_from_timestamp(ts) deletes no projection row,
\* applies through handle_event only stored events with occurred_at >= ts, and
\* leaves the rows of aggregates without such an event as they were
C14_FromTimestampFrame ==
    projLast.op = "rebuild_projections_from_timestamp" =>
        LET ts == projLast.before.from_timestamp
            old == projLast.before.tables
            touched == {e.aggregate_id : e \in {x \in events : x.occurred_at >= ts}}
        IN  /\ DOMAIN old.applications \subseteq DOMAIN applications
            /\ DOMAIN old.suggestions \subseteq DOMAIN suggestions
            /\ \A i \in 1..Len(projLast.events) :
                  /\ projLast.events[i] \in events
                  /\ projLast.events[i].occurred_at >= ts
            /\ Tables = rebuild_projections_from_timestamp(old, projLast.events)
            /\ \A id \in DOMAIN old.applications \ touched :
                  applications[id] = old.applications[id]
            /\ \A id \in DOMAIN old.suggestions \ touched :
                  suggestions[id] = old.suggestions[id]

\* a rebuild from timestamp 2 on a log with an older event of a projected
\* application and a newer event that it applied
C14_Witness ==
    /\ projLast.op = "rebuild_projections_from_timestamp"
    /\ projLast.before.from_timestamp = 2
    /\ \E e \in events : /\ e.occurred_at < 2
                         /\ e.aggregate_id \in DOMAIN projLast.before.tables.applications
    /\ Len(projLast.events) > 0
    /\ Tables # projLast.before.tables

(***************************************************************************)
(* ApplicationRepository called directly, the same call on a file-backed   *)
(* and on a relational repository (test_dual_backend.py)                   *)
(***************************************************************************)
MaxDualEvents == 3

\* the Application objects handed to create and update
RepoApplication(id, volunteerId, status, coverLetter) ==
    [NewApplication(id, volunteerId, "o1") EXCEPT
        !.status = status, !.coverLetter = coverLetter]

RepoProfiles ==
    {<<"v1", "submitted", "L1">>, <<"v1", "reviewing", "L1">>,
     <<"v1", "reviewing", "L2">>, <<"v2", "submitted", "L1">>}

RepoApplications ==
    {RepoApplication(id, p[1], p[2], p[3]) : id \in ProjIds, p \in RepoProfiles}

\* what a call gave: the exception raised, if any, and the applications returned
Outcome(error, value) == [error |-> error, value |-> value]

RepoCall(op, arg, file, postgres) ==
    [op |-> op, arg |-> arg, file |-> file, postgres |-> postgres]

DualInit ==
    /\ now = 1
    /\ backend = None
    /\ cache = <<>>
    /\ dataFile = <<>>
    /\ eventLog = <<>>
    /\ events = {}
    /\ applications = <<>>
    /\ repoLast = RepoCall("none", NoId, Outcome(None, {}), Outcome(None, {}))
    /\ ExtraUnused
    /\ nextId = 0
    /\ svcLast = Unused
    /\ ops = <<>>
    /\ procs = <<>>
    /\ lastBatch = None
    /\ seqAuto = <<>>
    /\ busEvents = <<>>
    /\ SMAndRetryUnused
    /\ ProjUnused
    /\ MatchUnused

dualFrame == <<smVars, retryVars, procs, lastBatch, seqAuto, busEvents, now, backend,
               nextId, svcLast, ops, projVars, matchVars, extraVars>>

\* create(application) on both repositories
DualCreate(application) ==
    /\ LET f == repo_create("file", Storage, application)
           p == repo_create("postgres", f.st, application)
       IN  /\ Cardinality(p.st.events) <= MaxDualEvents
           /\ SetStorage(p.st)
           /\ repoLast' = RepoCall("create", application,
                              Outcome(f.error, IF f.error = None THEN {application} ELSE {}),
                              Outcome(p.error, IF p.error = None THEN {application} ELSE {}))
    /\ UNCHANGED dualFrame

\* update(application) on both repositories; both return the application with
\* its updatedAt set
DualUpdate(application) ==
    /\ LET f == repo_update("file", Storage, application)
           p == repo_update("postgres", f.st, application)
           app == [application EXCEPT !.updatedAt = now]
       IN  /\ Cardinality(p.st.events) <= MaxDualEvents
           /\ SetStorage(p.st)
           /\ repoLast' = RepoCall("update", application,
                              Outcome(f.error, IF f.error = None THEN {app} ELSE {}),
                              Outcome(p.error, IF p.error = None THEN {app} ELSE {}))
    /\ UNCHANGED dualFrame

\* get(application_id) on both repositories
DualGet(application_id) ==
    /\ repoLast' = RepoCall("get", application_id,
                       Outcome(None, repo_get("file", Storage, application_id)),
                       Outcome(None, repo_get("postgres", Storage, application_id)))
    /\ UNCHANGED <<cache, dataFile, events, applications, eventLog, dualFrame>>

\* find_by_volunteer(volunteer_id) on both repositories
DualFindByVolunteer(volunteer_id) ==
    /\ repoLast' = RepoCall("find_by_volunteer", volunteer_id,
                       Outcome(None, find_by_volunteer("file", Storage, volunteer_id)),
                       Outcome(None, find_by_volunteer("postgres", Storage, volunteer_id)))
    /\ UNCHANGED <<cache, dataFile, events, applications, eventLog, dualFrame>>

DualNext ==
    \/ \E application \in RepoApplications : DualCreate(application)
    \/ \E application \in RepoApplications : DualUpdate(application)
    \/ \E application_id \in ProjIds : DualGet(application_id)
    \/ \E volunteer_id \in {"v1", "v2"} : DualFindByVolunteer(volunteer_id)

SpecDual == DualInit /\ [][DualNext]_vars

\* the events of an application, and the latest of them that set its status
C15_Latest(evs) == CHOOSE e \in evs : \A x \in evs : x.version <= e.version
C15_StatusEvents(id) ==
    {e \in RowsOf(events, id) :
        e.event_type \in {"application.created", "application.state.changed"}}
C15_StatusOf(e) ==
    IF e.event_type = "application.created" THEN e.payload.status ELSE e.payload.newState

\* every projection row carries the version of the latest event of its
\* application and the status of its latest created or state-changed event
C15_Rows ==
    \A id \in DOMAIN applications :
        /\ RowsOf(events, id) # {}
        /\ applications[id].version = C15_Latest(RowsOf(events, id)).version
        /\ C15_StatusEvents(id) # {}
        /\ applications[id].status = C15_StatusOf(C15_Latest(C15_StatusEvents(id)))

\* a successful create or update on the relational backend appends exactly one
\* event, at the previous maximum version plus 1, of the type the change calls
\* for, and the projection is the old one with that event applied
C15_Step ==
    (repoLast' # repoLast /\ repoLast'.op \in {"create", "update"}
        /\ repoLast'.postgres.error = None) =>
    LET id == repoLast'.arg.id
        new == events' \ events
    IN  /\ events \subseteq events'
        /\ Cardinality(new) = 1
        /\ \A e \in new :
              /\ e.aggregate_id = id
              /\ e.aggregate_type = "Application"
              /\ e.version = get_current_version(events, id) + 1
              /\ e.event_type =
                    IF repoLast'.op = "create" THEN "application.created"
                    ELSE IF repoLast'.arg.status # applications[id].status
                         THEN "application.state.changed"
                         ELSE "application.updated"
              /\ repoLast'.op = "create" => e.version = 1
              /\ applications' = projection_handle_event(applications, e)

\* C15: on the relational backend every successful create or update appends one
\* event at the next version, of the right type, and projects it, so every row
\* carries the version of its latest event and the status of its latest
\* created or state-changed event
C15_EventPerMutation == []C15_Rows /\ [][C15_Step]_vars

\* an update that changed the status of a stored application, then one that did not
C15_Witness ==
    /\ repoLast.op = "update"
    /\ repoLast.postgres.error = None
    /\ \E e \in events : e.event_type = "application.state.changed"
    /\ \E e \in events : e.event_type = "application.updated" /\ e.version = 3
    /\ applications[repoLast.arg.id].version = 3

\* the application of the call is stored, on each backend
C16_StoredFile == repoLast'.arg.id \in DOMAIN cache
C16_StoredPostgres == repoLast'.arg.id \in DOMAIN applications

\* C16: create of an application whose id is stored, and update of one whose id
\* is not, fail on the file backend and on the relational backend, and leave
\* the cache and file, the event logs and the projection unchanged
C16_RejectedUnchanged ==
    [][(repoLast'.op \in {"create", "update"}) =>
          /\ (repoLast'.op = "create") = C16_StoredFile =>
                /\ repoLast'.file.error = "ValueError"
                /\ UNCHANGED <<cache, dataFile, eventLog>>
          /\ (repoLast'.op = "create") = C16_StoredPostgres =>
                /\ repoLast'.postgres.error = "ValueError"
                /\ UNCHANGED <<events, applications>>]_vars

\* an update of an unknown id was rejected on both backends while others are stored
C16_Witness ==
    /\ repoLast.op = "update"
    /\ repoLast.file.error = "ValueError"
    /\ repoLast.postgres.error = "ValueError"
    /\ repoLast.arg.id \notin DOMAIN cache \cup DOMAIN applications
    /\ DOMAIN cache # {}
    /\ DOMAIN applications # {}

\* the fields of an application the two backends are compared on
C17_Fields(application) ==
    [id |-> application.id, volunteerId |-> application.volunteerId,
     opportunityId |-> application.opportunityId, status |-> application.status,
     coverLetter |-> application.coverLetter]

\* C17: for any sequence of create, get, update and find_by_volunteer calls the
\* two backends fail on the same calls and return applications that agree in
\* id, volunteer, opportunity, status and cover letter
C17_SameOutcomes ==
    /\ (repoLast.file.error = None) = (repoLast.postgres.error = None)
    /\ {C17_Fields(a) : a \in repoLast.file.value}
           = {C17_Fields(a) : a \in repoLast.postgres.value}

(***************************************************************************)
(* services/matching/repository.py: MatchRepository                        *)
(***************************************************************************)
MaxHistory == 3

\* the MatchSuggestion objects handed to save
MatchSuggestions ==
    {[id |-> id, volunteerId |-> v, opportunityId |-> "o1", organizationId |-> "org1",
      score |-> 80, generatedAt |-> 1, status |-> "pending"]
        : id \in ProjIds, v \in {"v1", "v2"}}
SuggestionStatuses == {"pending", "viewed", "accepted"}

\* json.dumps(suggestion.model_dump(), default=str): the datetime as a string
model_dump(suggestion) == [suggestion EXCEPT !.generatedAt = <<"str", @>>]

\* _save: the cached suggestions written to match_suggestions.json
match_save_file(c) == {model_dump(c[id]) : id \in DOMAIN c}

\* mutant of save: one suggestion per (volunteer, opportunity) is kept
match_save_dedup(m, suggestion) ==
    IF m.backend = "postgres" THEN [m |-> m, result |-> {suggestion}]
    ELSE LET kept == {j \in DOMAIN m.cache :
                         \/ m.cache[j].volunteerId # suggestion.volunteerId
                         \/ m.cache[j].opportunityId # suggestion.opportunityId}
             c == (suggestion.id :> suggestion) @@ [j \in kept |-> m.cache[j]]
         IN  [m |-> [m EXCEPT !.cache = c, !.dataFile = match_save_file(c),
                              !.history = Append(@, model_dump(suggestion))],
              result |-> {suggestion}]

\* save: the postgres branch is a placeholder that returns the suggestion
match_save(m, suggestion) ==
    IF m.backend = "postgres" THEN [m |-> m, result |-> {suggestion}]
    ELSE LET c == (suggestion.id :> suggestion) @@ m.cache
         IN  [m |-> [m EXCEPT !.cache = c, !.dataFile = match_save_file(c),
                              !.history = Append(@, model_dump(suggestion))],
              result |-> {suggestion}]

\* find_by_volunteer: the postgres branch returns []
match_find_by_volunteer(m, volunteer_id) ==
    IF m.backend = "postgres" THEN {}
    ELSE {m.cache[id] : id \in {j \in DOMAIN m.cache : m.cache[j].volunteerId = volunteer_id}}

\* get: the postgres branch returns None
match_get(m, suggestion_id) ==
    IF m.backend = "postgres" THEN {}
    ELSE IF suggestion_id \in DOMAIN m.cache THEN {m.cache[suggestion_id]} ELSE {}

\* update_status: the postgres branch returns None
match_update_status(m, suggestion_id, status) ==
    IF m.backend = "postgres" THEN [m |-> m, result |-> {}]
    ELSE IF suggestion_id \in DOMAIN m.cache
    THEN LET c == [m.cache EXCEPT ![suggestion_id].status = status]
         IN  [m |-> [m EXCEPT !.cache = c, !.dataFile = match_save_file(c)],
              result |-> {c[suggestion_id]}]
    ELSE [m |-> m, result |-> {}]

\* the last call on the repository: its name, its argument and what it returned
MatchCall(op, arg, result) == [op |-> op, arg |-> arg, result |-> result]

\* saved: the suggestions the callers have saved, with the status they last gave
\* them, whatever the backend does with them
MatchInit ==
    /\ \E be \in Backends :
          match = [backend |-> be, cache |-> <<>>, dataFile |-> {}, history |-> <<>>,
                   saved |-> <<>>, last |-> MatchCall("none", NoId, {})]
    /\ algo = Unused
    /\ repoLast = Unused
    /\ ExtraUnused
    /\ ProjUnused
    /\ StoreUnused
    /\ AppUnused
    /\ SMAndRetryUnused

matchFrame == <<smVars, retryVars, storeVars, appVars, projVars, repoLast, algo, extraVars>>

MatchSave(suggestion) ==
    /\ Len(match.history) < MaxHistory
    /\ LET r == match_save(match, suggestion)
       IN  match' = [r.m EXCEPT !.saved = (suggestion.id :> suggestion) @@ @,
                                !.last = MatchCall("save", suggestion, r.result)]
    /\ UNCHANGED matchFrame

MatchGet(suggestion_id) ==
    /\ match' = [match EXCEPT !.last = MatchCall("get", suggestion_id,
                                                 match_get(match, suggestion_id))]
    /\ UNCHANGED matchFrame

MatchFindByVolunteer(volunteer_id) ==
    /\ match' = [match EXCEPT !.last = MatchCall("find_by_volunteer", volunteer_id,
                                           match_find_by_volunteer(match, volunteer_id))]
    /\ UNCHANGED matchFrame

MatchUpdateStatus(suggestion_id, status) ==
    /\ LET r == match_update_status(match, suggestion_id, status)
       IN  match' = [r.m EXCEPT
                        !.saved = IF suggestion_id \in DOMAIN @
                                  THEN [@ EXCEPT ![suggestion_id].status = status] ELSE @,
                        !.last = MatchCall("update_status", <<suggestion_id, status>>,
                                           r.result)]
    /\ UNCHANGED matchFrame

MatchNext ==
    \/ \E suggestion \in MatchSuggestions : MatchSave(suggestion)
    \/ \E suggestion_id \in ProjIds : MatchGet(suggestion_id)
    \/ \E volunteer_id \in {"v1", "v2"} : MatchFindByVolunteer(volunteer_id)
    \/ \E suggestion_id \in ProjIds, status \in SuggestionStatuses :
          MatchUpdateStatus(suggestion_id, status)

SpecMatchRepo == MatchInit /\ [][MatchNext]_vars

\* C18: on either backend, once s is saved, get(s.id) returns s,
\* find_by_volunteer(s.volunteerId) contains s, and update_status(s.id, x)
\* returns s with status x
C18_PostgresAsFile ==
    LET last == match.last
        saved == match.saved
    IN  /\ last.op = "get" /\ last.arg \in DOMAIN saved =>
              last.result = {saved[last.arg]}
        /\ last.op = "find_by_volunteer" =>
              \A id \in DOMAIN saved :
                  saved[id].volunteerId = last.arg => saved[id] \in last.result
        /\ last.op = "update_status" /\ last.arg[1] \in DOMAIN saved =>
              /\ last.result = {saved[last.arg[1]]}
              /\ \A r \in last.result : r.status = last.arg[2]

(***************************************************************************)
(* services/matching/algorithm.py: MatchingAlgorithm                       *)
(*                                                                         *)
(* Scores are exact fractions: a component x is held as 60 * x and a total *)
(* as 6000 * total, so that k / n for n up to 6 and the weights 0.40,      *)
(* 0.35, 0.25 are whole numbers.  Distances are in metres.                 *)
(***************************************************************************)
\* the component n / d
fraction(n, d) == (60 * n) \div d

\* WEIGHTS, in hundredths
WEIGHTS == [distance |-> 40, skills |-> 35, availability |-> 25]
Factors == {"distance", "skills", "availability"}

\* a total given in hundredths (0.3 is total_of(30), 1.0 is total_of(100))
total_of(hundredths) == 60 * hundredths

\* locations: no location given, or latitude and longitude in hundredths of a
\* degree; the locations with two non-zero coordinates lie on one meridian
NoLocation == <<>>
Location(latitude) == [latitude |-> latitude, longitude |-> 3123]

\* loc.get(key, 0)
loc_get(loc, key) == IF key \in DOMAIN loc THEN loc[key] ELSE 0

\* mutant of _calculate_distance: the distance is that of the second latitude
\* from the equator
calculate_distance_equator(loc1, loc2) ==
    IF loc1 = NoLocation \/ loc2 = NoLocation THEN 999 * 1000
    ELSE IF 0 \in {loc_get(loc1, "latitude"), loc_get(loc1, "longitude"),
                   loc_get(loc2, "latitude"), loc_get(loc2, "longitude")}
    THEN 999 * 1000
    ELSE 1112 * loc_get(loc2, "latitude")

\* mutant of _calculate_distance: a coordinate of zero is a coordinate
calculate_distance_mut(loc1, loc2) ==
    IF loc1 = NoLocation \/ loc2 = NoLocation THEN 999 * 1000
    ELSE LET lat1 == loc_get(loc1, "latitude")
             lat2 == loc_get(loc2, "latitude")
         IN  1112 * (IF lat2 >= lat1 THEN lat2 - lat1 ELSE lat1 - lat2)

\* _calculate_distance, in metres: 999 km when a location is missing or one of
\* the four coordinates is zero (not all([...])), else the haversine distance,
\* which between two points of one meridian is R * |dlat| in radians, 1112 m
\* for each hundredth of a degree
calculate_distance(loc1, loc2) ==
    IF loc1 = NoLocation \/ loc2 = NoLocation THEN 999 * 1000
    ELSE LET lat1 == loc_get(loc1, "latitude")
             lon1 == loc_get(loc1, "longitude")
             lat2 == loc_get(loc2, "latitude")
             lon2 == loc_get(loc2, "longitude")
         IN  IF 0 \in {lat1, lon1, lat2, lon2} THEN 999 * 1000
             ELSE 1112 * (IF lat2 >= lat1 THEN lat2 - lat1 ELSE lat1 - lat2)

\* the distance component and its explanation
distance_score(distance_m) ==
    IF distance_m <= 5 * 1000
    THEN [score |-> fraction(1, 1), explanation |-> <<"Very close (< 5km)">>]
    ELSE IF distance_m <= 15 * 1000
    THEN [score |-> fraction(8, 10), explanation |-> <<"Nearby (< 15km)">>]
    ELSE IF distance_m <= 30 * 1000
    THEN [score |-> fraction(5, 10), explanation |-> <<"Moderate distance (< 30km)">>]
    ELSE [score |-> fraction(2, 10), explanation |-> <<"Far">>]

\* the skills component and its explanation
skills_score(volunteer_skills, required_skills) ==
    IF required_skills # {}
    THEN LET skill_match == fraction(Cardinality(volunteer_skills \cap required_skills),
                                     Cardinality(required_skills))
         IN  [score |-> skill_match,
              explanation |->
                  IF skill_match >= fraction(1, 1) THEN <<"All skills matched">>
                  ELSE IF skill_match >= fraction(1, 2) THEN <<"% skills matched">>
                  ELSE <<"Only % skills matched">>]
    ELSE [score |-> fraction(1, 1), explanation |-> <<"No specific skills required">>]

\* mutant of the availability component: the overlap is divided by the number of
\* slots of the volunteer
availability_score_mut(volunteer_avail, opportunity_times) ==
    IF opportunity_times # {} /\ volunteer_avail # {}
    THEN LET avail_match == fraction(Cardinality(volunteer_avail \cap opportunity_times),
                                     Cardinality(volunteer_avail))
         IN  [score |-> avail_match,
              explanation |->
                  IF avail_match >= fraction(8, 10) THEN <<"Excellent time match">>
                  ELSE IF avail_match >= fraction(1, 2) THEN <<"Good time match">>
                  ELSE <<"Limited time overlap">>]
    ELSE [score |-> fraction(1, 2), explanation |-> <<>>]

\* the availability component and its explanation
availability_score(volunteer_avail, opportunity_times) ==
    IF opportunity_times # {} /\ volunteer_avail # {}
    THEN LET avail_match == fraction(Cardinality(volunteer_avail \cap opportunity_times),
                                     Cardinality(opportunity_times))
         IN  [score |-> avail_match,
              explanation |->
                  IF avail_match >= fraction(8, 10) THEN <<"Excellent time match">>
                  ELSE IF avail_match >= fraction(1, 2) THEN <<"Good time match">>
                  ELSE <<"Limited time overlap">>]
    ELSE [score |-> fraction(1, 2), explanation |-> <<>>]

\* min(a, b)
min(a, b) == IF a <= b THEN a ELSE b

\* calculate_match_score
calculate_match_score(volunteer, opportunity) ==
    LET d == distance_score(calculate_distance(volunteer.location, opportunity.location))
        k == skills_score(volunteer.skills, opportunity.requiredSkills)
        a == availability_score(volunteer.availability, opportunity.timeSlots)
        components == [distance |-> d.score, skills |-> k.score, availability |-> a.score]
        total_score == components.distance * WEIGHTS.distance
                       + components.skills * WEIGHTS.skills
                       + components.availability * WEIGHTS.availability
    IN  [total |-> min(total_score, total_of(100)),
         components |-> components,
         explanation |-> d.explanation \o k.explanation \o a.explanation]

\* mutant of the threshold: every opportunity is kept
meets_threshold_mut(score) == score.total >= 0

\* score.total >= 0.3
meets_threshold(score) == score.total >= total_of(30)

\* scored.sort(key=lambda x: x[1].total, reverse=True): a stable sort, pairs of
\* equal total keep their order
RECURSIVE sort_by_total(_)
sort_by_total(scored) ==
    IF scored = <<>> THEN <<>>
    ELSE LET front == sort_by_total(SubSeq(scored, 1, Len(scored) - 1))
             x == scored[Len(scored)]
             k == Cardinality({i \in 1..Len(front) : front[i][2].total >= x[2].total})
         IN  SubSeq(front, 1, k) \o <<x>> \o SubSeq(front, k + 1, Len(front))

\* the loop of rank_opportunities: the pairs that meet the threshold, in order
RECURSIVE scored_of(_, _)
scored_of(volunteer, opportunities) ==
    IF opportunities = <<>> THEN <<>>
    ELSE LET opportunity == Head(opportunities)
             score == calculate_match_score(volunteer, opportunity)
         IN  (IF meets_threshold(score) THEN <<<<opportunity, score>>>> ELSE <<>>)
             \o scored_of(volunteer, Tail(opportunities))

\* rank_opportunities, with limit >= 1 as the API requires
rank_opportunities(volunteer, opportunities, limit) ==
    LET scored == sort_by_total(scored_of(volunteer, opportunities))
    IN  SubSeq(scored, 1, min(limit, Len(scored)))

\* the volunteers and opportunities the algorithm is called with
MaxOpportunities == 3
MaxLimit == 3
Skills == {"teaching", "medical", "technical"}
Slots == {"weekend-morning", "weekend-evening"}
Volunteers ==
    {[skills |-> sk, availability |-> av, location |-> loc] :
        sk \in SUBSET Skills, av \in SUBSET Slots,
        loc \in {NoLocation, Location(3004)}}
    \cup {[skills |-> {"teaching"}, availability |-> {"weekend-morning"},
           location |-> Location(0)]}
Opportunities ==
    {[requiredSkills |-> sk, timeSlots |-> ts, location |-> loc] :
        sk \in SUBSET Skills, ts \in SUBSET Slots,
        loc \in {NoLocation, Location(0), Location(3004), Location(3014),
                 Location(3024), Location(3104)}}
    \cup {[requiredSkills |-> {"teaching"}, timeSlots |-> {"weekend-morning"},
           location |-> [longitude |-> 3123]]}
RankVolunteers ==
    {v \in Volunteers : /\ v.skills \in {{}, {"teaching"}}
                        /\ v.availability = {"weekend-morning"}
                        /\ v.location = Location(3004)}
RankOpportunities ==
    {o \in Opportunities :
        /\ o.requiredSkills \in {{"teaching"}, {"medical"}}
        /\ \/ o.location = Location(3004) /\ o.timeSlots = {"weekend-morning"}
           \/ o.location = Location(3104) /\ Cardinality(o.timeSlots) = 1}
RankInputs ==
    UNION {[1..n -> RankOpportunities] : n \in 0..MaxOpportunities}

AlgoCall(op, volunteer, opportunities, limit, result) ==
    [op |-> op, volunteer |-> volunteer, opportunities |-> opportunities,
     limit |-> limit, result |-> result]

\* the arguments of a call about to be made: one pair to score (limit 0), or a
\* list to rank with its limit
AlgoInputs ==
    {AlgoCall("input", volunteer, <<opportunity>>, 0, <<>>) :
        volunteer \in Volunteers, opportunity \in Opportunities}
    \cup {AlgoCall("input", volunteer, opportunities, limit, <<>>) :
              volunteer \in RankVolunteers, opportunities \in RankInputs,
              limit \in 1..MaxLimit}

AlgoInit ==
    /\ algo \in AlgoInputs
    /\ match = Unused
    /\ repoLast = Unused
    /\ ExtraUnused
    /\ ProjUnused
    /\ StoreUnused
    /\ AppUnused
    /\ SMAndRetryUnused

algoFrame == <<smVars, retryVars, storeVars, appVars, projVars, repoLast, match, extraVars>>

CalculateMatchScore ==
    /\ algo.op = "input" /\ algo.limit = 0
    /\ algo' = [algo EXCEPT !.op = "calculate_match_score",
                            !.result = <<calculate_match_score(algo.volunteer,
                                                               algo.opportunities[1])>>]
    /\ UNCHANGED algoFrame

\* _calculate_distance(volunteer location, opportunity location), as the tests
\* call it
CalculateDistance ==
    /\ algo.op = "input" /\ algo.limit = 0
    /\ algo' = [algo EXCEPT !.op = "_calculate_distance",
                            !.result = <<calculate_distance(algo.volunteer.location,
                                                            algo.opportunities[1].location)>>]
    /\ UNCHANGED algoFrame

RankOpportunitiesCall ==
    /\ algo.op = "input" /\ algo.limit >= 1
    /\ algo' = [algo EXCEPT !.op = "rank_opportunities",
                            !.result = rank_opportunities(algo.volunteer,
                                                          algo.opportunities, algo.limit)]
    /\ UNCHANGED algoFrame

AlgoNext == CalculateMatchScore \/ CalculateDistance \/ RankOpportunitiesCall

SpecAlgo == AlgoInit /\ [][AlgoNext]_vars

\* C19: rank_opportunities returns at most limit pairs, each of an input
\* opportunity with a total of at least 0.30, in non-increasing order of total,
\* and no input left out that meets the threshold has a total strictly greater
\* than a returned one
C19_Ranking ==
    algo.op = "rank_opportunities" =>
        LET result == algo.result
            inputs == {algo.opportunities[i] : i \in 1..Len(algo.opportunities)}
            returned == {result[i][1] : i \in 1..Len(result)}
        IN  /\ Len(result) <= algo.limit
            /\ \A i \in 1..Len(result) :
                  /\ result[i][1] \in inputs
                  /\ result[i][2] = calculate_match_score(algo.volunteer, result[i][1])
                  /\ result[i][2].total >= total_of(30)
            /\ \A i, j \in 1..Len(result) :
                  i < j => result[i][2].total >= result[j][2].total
            /\ \A o \in inputs \ returned :
                  calculate_match_score(algo.volunteer, o).total >= total_of(30) =>
                      \A i \in 1..Len(result) :
                          calculate_match_score(algo.volunteer, o).total
                              <= result[i][2].total

\* a ranking that left out an opportunity below the threshold and one that the
\* limit cut off, and returned two pairs of different totals
C19_Witness ==
    /\ algo.op = "rank_opportunities"
    /\ Len(algo.opportunities) = 3
    /\ algo.limit = 2
    /\ Len(algo.result) = 2
    /\ algo.result[1][2].total > algo.result[2][2].total
    /\ \E i \in 1..3 :
          calculate_match_score(algo.volunteer, algo.opportunities[i]).total < total_of(30)

\* the reference score of the claim
C20_Skills(volunteer, opportunity) ==
    IF opportunity.requiredSkills = {} THEN fraction(1, 1)
    ELSE fraction(Cardinality(volunteer.skills \cap opportunity.requiredSkills),
                  Cardinality(opportunity.requiredSkills))
C20_Availability(volunteer, opportunity) ==
    IF volunteer.availability # {} /\ opportunity.timeSlots # {}
    THEN fraction(Cardinality(volunteer.availability \cap opportunity.timeSlots),
                  Cardinality(opportunity.timeSlots))
    ELSE fraction(1, 2)
C20_Total(distance, skills, availability) ==
    min(total_of(100), 40 * distance + 35 * skills + 25 * availability)

\* C20: calculate_match_score gives skills = 1.0 when no skill is required and
\* the matched share of the required skills otherwise, availability = the
\* matched share of the opportunity's slots when both sides name slots and 0.5
\* with no explanation otherwise, total = min(1.0, 0.40 * distance + 0.35 *
\* skills + 0.25 * availability), and every component and the total in [0, 1]
C20_Reference ==
    algo.op = "calculate_match_score" =>
        LET score == algo.result[1]
            volunteer == algo.volunteer
            opportunity == algo.opportunities[1]
            neutral == volunteer.availability = {} \/ opportunity.timeSlots = {}
        IN  /\ score.components.skills = C20_Skills(volunteer, opportunity)
            /\ score.components.availability = C20_Availability(volunteer, opportunity)
            /\ Len(score.explanation) = IF neutral THEN 2 ELSE 3
            /\ score.total = C20_Total(score.components.distance,
                                       score.components.skills,
                                       score.components.availability)
            /\ \A f \in Factors :
                  score.components[f] >= 0 /\ score.components[f] <= fraction(1, 1)
            /\ score.total >= 0 /\ score.total <= total_of(100)

\* a score with part of the required skills and part of the slots matched
C20_Witness ==
    /\ algo.op = "calculate_match_score"
    /\ Cardinality(algo.opportunities[1].requiredSkills) = 3
    /\ algo.result[1].components.skills = fraction(2, 3)
    /\ Cardinality(algo.volunteer.availability) = 1
    /\ algo.result[1].components.availability = fraction(1, 2)
    /\ algo.result[1].components.distance = fraction(8, 10)

\* the step function of the claim, on a distance in metres
C21_Step(distance_m) ==
    IF distance_m <= 5000 THEN fraction(10, 10)
    ELSE IF distance_m <= 15000 THEN fraction(8, 10)
    ELSE IF distance_m <= 30000 THEN fraction(5, 10)
    ELSE fraction(2, 10)

\* the location is missing, or its latitude or longitude is absent or zero
C21_Unknown(loc) ==
    \/ loc = NoLocation
    \/ "latitude" \notin DOMAIN loc
    \/ "longitude" \notin DOMAIN loc
    \/ loc.latitude = 0
    \/ loc.longitude = 0

C22_SelfDistanceNonZero ==
    (/\ algo.op = "_calculate_distance"
     /\ algo.volunteer.location = algo.opportunities[1].location
     /\ ~C21_Unknown(algo.volunteer.location)) =>
        algo.result[1] < 1000

C22_Witness ==
    /\ algo.op = "_calculate_distance"
    /\ algo.volunteer.location = Location(3004)
    /\ algo.opportunities[1].location = Location(3004)
    /\ algo.result[1] = 0

\* the statement for every location that has a latitude and a longitude,
\* zero or not
C22_SelfDistance ==
    (/\ algo.op = "_calculate_distance"
     /\ algo.volunteer.location = algo.opportunities[1].location
     /\ DOMAIN algo.volunteer.location = {"latitude", "longitude"}) =>
        algo.result[1] < 1000

(***************************************************************************)
(* services/applications/events.py: EventPublisher with its Redis bus      *)
(* infrastructure/event_bus.py: RedisEventBus.publish                      *)
(***************************************************************************)
\* the Redis server as a publish call meets it: answering, not reachable, or
\* answering the ping and failing the XADD
RedisServers == {"up", "down", "failing"}
\* most lines of the JSONL log
MaxPubEvents == 3

\* _ensure_connection: every failure of the ping gives False
ensure_connection(server) == server # "down"

\* redis.xadd(stream_name, event.to_dict()): the id of the new entry, or an
\* exception
xadd(server, stream, entry) ==
    IF server = "up"
    THEN [raised |-> FALSE, stream |-> Append(stream, entry), id |-> Len(stream) + 1]
    ELSE [raised |-> TRUE, stream |-> stream, id |-> NoId]

\* mutant of RedisEventBus.publish: the exception of XADD leaves the method
redis_publish_mut(server, stream, event_type, payload, source_service) ==
    LET x == xadd(server, stream,
                  [event_type |-> event_type, payload |-> payload,
                   source_service |-> source_service])
    IN  IF ensure_connection(server)
        THEN [raised |-> x.raised, stream |-> x.stream, stream_id |-> x.id]
        ELSE [raised |-> FALSE, stream |-> stream, stream_id |-> NoId]

\* RedisEventBus.publish: the stream id, or None (NoId) after a failure
redis_publish(server, stream, event_type, payload, source_service) ==
    LET x == xadd(server, stream,
                  [event_type |-> event_type, payload |-> payload,
                   source_service |-> source_service])
    IN  IF ensure_connection(server) /\ ~x.raised
        THEN [raised |-> FALSE, stream |-> x.stream, stream_id |-> x.id]
        ELSE [raised |-> FALSE, stream |-> stream, stream_id |-> NoId]

\* EventPublisher.publish: the line in the file first, then Redis when the
\* publisher has a bus; an exception of the bus is caught
event_publisher_publish(r, log, event_type, data) ==
    LET written == publish(log, event_type, data)
        p == redis_publish(r.server, r.stream, event_type, data, "applications")
    IN  [raised |-> FALSE,
         log |-> written,
         stream |-> IF r.bus THEN p.stream ELSE r.stream,
         redis_published |-> r.bus /\ ~p.raised /\ p.stream_id # NoId,
         event |-> [eventType |-> event_type, data |-> data]]

\* a call: what was called, the server it met, whether it raised, and the
\* stream id (NoId for None) or the event (as a sequence of none or one) returned
PubCall(op, server, raised, stream_id, event) ==
    [op |-> op, server |-> server, raised |-> raised, stream_id |-> stream_id,
     event |-> event]

PubInit ==
    /\ backend = "file"
    /\ cache = <<>>
    /\ dataFile = <<>>
    /\ applications = <<>>
    /\ eventLog = <<>>
    /\ nextId = 1
    /\ svcLast = SvcCall("init", NoId, None, None, None)
    /\ ops = <<>>
    /\ events = {}
    /\ now = 1
    /\ procs = <<>>
    /\ lastBatch = None
    /\ seqAuto = <<>>
    /\ busEvents = <<>>
    /\ SMAndRetryUnused
    /\ ProjUnused
    /\ repoLast = Unused
    /\ MatchUnused
    /\ redis \in {[bus |-> b, server |-> s, stream |-> <<>>,
                   last |-> PubCall("init", s, FALSE, NoId, <<>>)] :
                      b \in BOOLEAN, s \in RedisServers}
    /\ db = Unused
    /\ sub = Unused
    /\ auth = Unused

pubFrame == <<smVars, retryVars, storeVars, projVars, repoLast, matchVars, db, lateVars,
              backend, applications, ops>>

\* the server stops, starts, or starts failing
RedisChange(server) ==
    /\ server # redis.server
    /\ redis' = [redis EXCEPT !.server = server]
    /\ UNCHANGED <<pubFrame, cache, dataFile, eventLog, nextId, svcLast>>

\* RedisEventBus().publish(event_type, payload, source_service), called directly
RedisPublish(event_type) ==
    LET p == redis_publish(redis.server, redis.stream, event_type,
                           [applicationId |-> 1], "test")
    IN  /\ Len(redis.stream) < MaxPubEvents
        /\ redis' = [redis EXCEPT
               !.stream = p.stream,
               !.last = PubCall("RedisEventBus.publish", redis.server, p.raised,
                                p.stream_id, <<>>)]
        /\ UNCHANGED <<pubFrame, cache, dataFile, eventLog, nextId, svcLast>>

\* EventPublisher.publish(event_type, data)
EventPublisherPublish(event_type) ==
    LET p == event_publisher_publish(redis, eventLog, event_type, [applicationId |-> 1])
    IN  /\ Len(eventLog) < MaxPubEvents
        /\ eventLog' = p.log
        /\ redis' = [redis EXCEPT
               !.stream = p.stream,
               !.last = PubCall("EventPublisher.publish", redis.server, p.raised,
                                NoId, <<p.event>>)]
        /\ UNCHANGED <<pubFrame, cache, dataFile, nextId, svcLast>>

\* submit_application on the file backend, with the Redis side of the
\* repository's and the service's publishers
SubmitWithRedis(volunteerId, opportunityId) ==
    LET existing_apps == find_by_volunteer(backend, Storage, volunteerId)
        application == NewApplication(nextId, volunteerId, opportunityId)
        created == repo_create(backend, Storage, application)
        first == event_publisher_publish(redis, eventLog, "application.created",
                     [applicationId |-> application.id, status |-> application.status])
        second == event_publisher_publish([redis EXCEPT !.stream = first.stream],
                     created.st.eventLog, "application.submitted",
                     [applicationId |-> application.id, volunteerId |-> volunteerId,
                      opportunityId |-> opportunityId])
        raised == first.raised \/ second.raised
    IN  /\ volunteerId # "" /\ opportunityId # ""
        /\ ~already_exists(existing_apps, opportunityId)
        /\ nextId <= MaxApps
        /\ Len(eventLog) + 2 <= MaxPubEvents
        /\ created.error = None
        /\ first.log = created.st.eventLog
        /\ cache' = created.st.cache
        /\ dataFile' = created.st.dataFile
        /\ eventLog' = IF first.raised THEN eventLog
                       ELSE IF second.raised THEN first.log ELSE second.log
        /\ nextId' = nextId + 1
        /\ svcLast' = SvcCall("submit_application", application.id, volunteerId,
                              opportunityId, IF raised THEN "raised" ELSE "ok")
        /\ redis' = [redis EXCEPT
               !.stream = second.stream,
               !.last = PubCall("submit_application", redis.server, raised,
                                NoId, <<second.event>>)]
        /\ UNCHANGED pubFrame

PubEventTypes == {"application.submitted", "application.state.changed"}

PubNext ==
    \/ \E server \in RedisServers : RedisChange(server)
    \/ \E event_type \in PubEventTypes : RedisPublish(event_type)
    \/ \E event_type \in PubEventTypes : EventPublisherPublish(event_type)
    \/ \E c \in SubmitInputs : SubmitWithRedis(c[1], c[2])

\* publishing with a Redis server that comes and goes
SpecPublish == PubInit /\ [][PubNext]_vars

\* the call of this step met a Redis server that could not take the event
C23_Failed(op) ==
    /\ redis'.last # redis.last
    /\ redis'.last.op = op
    /\ redis.server # "up"

\* C23: with Redis unavailable or failing, EventPublisher.publish appends the
\* event to the JSONL log and returns it without raising, RedisEventBus.publish
\* returns None without raising, and submit_application succeeds
C23_Step ==
    /\ C23_Failed("EventPublisher.publish") =>
          /\ ~redis'.last.raised
          /\ eventLog' = eventLog \o redis'.last.event
          /\ redis'.stream = redis.stream
    /\ C23_Failed("RedisEventBus.publish") =>
          /\ ~redis'.last.raised
          /\ redis'.last.stream_id = NoId
          /\ redis'.stream = redis.stream
    /\ C23_Failed("submit_application") =>
          /\ ~redis'.last.raised
          /\ svcLast'.result = "ok"
          /\ svcLast'.application_id \in DOMAIN cache'
          /\ Len(eventLog') = Len(eventLog) + 2
          /\ <<eventLog'[Len(eventLog')]>> = redis'.last.event

C23_RedisFallback == [][C23_Step]_vars

\* an application submitted while the publishers have a bus and Redis fails
C23_Witness ==
    /\ redis.bus
    /\ redis.last.op = "submit_application"
    /\ redis.last.server = "failing"
    /\ svcLast.result = "ok"
    /\ redis.stream = <<>>
    /\ Len(eventLog) = 2

(***************************************************************************)
(* services/applications/repository.py: reads of the relational backend    *)
(* while the database fails                                                 *)
(***************************************************************************)
\* the database as a read meets it: answering, or failing every statement
DbServers == {"up", "failing"}
\* most events stored
MaxDbEvents == 3

\* what the caller of a read gets
NotFound == "ValueError: not found"

\* _get_postgres with the database as the call meets it: every exception of the
\* session or the query is caught and None is returned
get_postgres_db(server, table, application_id) ==
    IF server = "failing" THEN {} ELSE get_postgres(table, application_id)

\* _update_postgres, from its first read on
update_postgres_db(server, st, application) ==
    IF get_postgres_db(server, st.applications, application.id) = {}
    THEN [error |-> NotFound, st |-> st]
    ELSE update_postgres(st, application)

\* a call: its name, the id it was given, the database it met, whether the id
\* was stored, and what the caller got (an exception, "None" or "application")
DbCall(op, application_id, server, stored, outcome) ==
    [op |-> op, application_id |-> application_id, server |-> server,
     stored |-> stored, outcome |-> outcome]

DbInit ==
    /\ backend = "postgres"
    /\ cache = <<>>
    /\ dataFile = <<>>
    /\ applications = <<>>
    /\ eventLog = <<>>
    /\ nextId = 1
    /\ svcLast = Unused
    /\ ops = <<>>
    /\ events = {}
    /\ now = 1
    /\ procs = <<>>
    /\ lastBatch = None
    /\ seqAuto = <<>>
    /\ busEvents = <<>>
    /\ SMAndRetryUnused
    /\ ProjUnused
    /\ repoLast = Unused
    /\ MatchUnused
    /\ redis = Unused
    /\ db = [server |-> "up", last |-> DbCall("init", NoId, "up", FALSE, None)]
    /\ sub = Unused
    /\ auth = Unused

dbFrame == <<smVars, retryVars, procs, lastBatch, seqAuto, busEvents, now, projVars,
             repoLast, matchVars, redis, lateVars, backend, nextId, svcLast, ops>>

\* the database starts failing, or recovers
DbChange(server) ==
    /\ server # db.server
    /\ db' = [db EXCEPT !.server = server]
    /\ UNCHANGED <<dbFrame, cache, dataFile, events, applications, eventLog>>

\* create(application), while the database answers
DbCreate(application) ==
    LET created == repo_create("postgres", Storage, application)
    IN  /\ db.server = "up"
        /\ Cardinality(created.st.events) <= MaxDbEvents
        /\ SetStorage(created.st)
        /\ db' = [db EXCEPT !.last =
                     DbCall("create", application.id, db.server,
                            application.id \in DOMAIN applications,
                            IF created.error = None THEN "application"
                            ELSE created.error)]
        /\ UNCHANGED dbFrame

\* get(application_id)
DbGet(application_id) ==
    LET got == get_postgres_db(db.server, applications, application_id)
    IN  /\ db' = [db EXCEPT !.last =
                     DbCall("get", application_id, db.server,
                            application_id \in DOMAIN applications,
                            IF got = {} THEN "None" ELSE "application")]
        /\ UNCHANGED <<dbFrame, cache, dataFile, events, applications, eventLog>>

\* update(application)
DbUpdate(application) ==
    LET updated == update_postgres_db(db.server, Storage, application)
    IN  /\ Cardinality(updated.st.events) <= MaxDbEvents
        /\ SetStorage(updated.st)
        /\ db' = [db EXCEPT !.last =
                     DbCall("update", application.id, db.server,
                            application.id \in DOMAIN applications,
                            IF updated.error = None THEN "application"
                            ELSE updated.error)]
        /\ UNCHANGED dbFrame

\* update_application_state(application_id, action)
DbUpdateApplicationState(application_id, action) ==
    LET got == get_postgres_db(db.server, applications, application_id)
        r == apply_action(CHOOSE a \in got : TRUE, action)
        updated == update_postgres_db(db.server, Storage, r.application)
        outcome == IF got = {} THEN NotFound
                   ELSE IF r.error # None THEN r.error
                   ELSE IF updated.error # None THEN updated.error
                   ELSE "application"
    IN  /\ got # {} /\ r.error = None =>
               Cardinality(updated.st.events) <= MaxDbEvents
        /\ IF got # {} /\ r.error = None THEN SetStorage(updated.st)
           ELSE UNCHANGED <<cache, dataFile, events, applications, eventLog>>
        /\ db' = [db EXCEPT !.last =
                     DbCall("update_application_state", application_id, db.server,
                            application_id \in DOMAIN applications, outcome)]
        /\ UNCHANGED dbFrame

DbNext ==
    \/ \E server \in DbServers : DbChange(server)
    \/ \E application \in RepoApplications : DbCreate(application)
    \/ \E id \in ProjIds : DbGet(id)
    \/ \E application \in RepoApplications : DbUpdate(application)
    \/ \E id \in ProjIds, action \in {"review", "cancel"} :
           DbUpdateApplicationState(id, action)

\* the relational repository with a database that fails and recovers
SpecDbRead == DbInit /\ [][DbNext]_vars

\* what an unknown id gives the caller of the operation
C24_NotFoundOutcome(op) == IF op = "get" THEN "None" ELSE NotFound

\* C24: a storage failure while reading an application on the relational
\* backend reaches the caller as something other than what an unknown id gives
C24_FailureDistinct ==
    (/\ db.last.op \in {"get", "update", "update_application_state"}
     /\ db.last.server = "failing") =>
        db.last.outcome # C24_NotFoundOutcome(db.last.op)

(***************************************************************************)
(* services/applications/service.py: the life of an application, with time *)
(* passing between the calls                                                *)
(***************************************************************************)
\* the values of the clock
FlowTimes == {1, 2}

FlowInputs == {<<"v1", "o1">>}
FlowActions == {"submit", "review", "accept", "reject", "complete", "cancel"}

\* time passes between two service calls
FlowTick ==
    /\ now + 1 \in FlowTimes
    /\ now' = now + 1
    /\ UNCHANGED <<backend, cache, dataFile, applications, eventLog, nextId, svcLast,
                   ops, events, otherThanApp>>

FlowNext ==
    \/ FlowTick
    \/ \E c \in FlowInputs : SubmitApplication(c[1], c[2])
    \/ \E id \in 1..MaxApps, action \in FlowActions : UpdateApplicationState(id, action)

\* service calls made one after another while the clock advances
SpecFlow == SvcInit /\ [][FlowNext]_vars

\* the ids stored, and the application stored under an id
C25_Ids(be, c, table) == IF be = "postgres" THEN DOMAIN table ELSE DOMAIN c
C25_App(be, c, table, id) ==
    IF be = "postgres" THEN row_to_application(table[id]) ELSE c[id]

\* an application in reviewing has reviewedAt set
C25_Reviewing ==
    \A id \in C25_Ids(backend, cache, applications) :
        C25_App(backend, cache, applications, id).status = "reviewing" =>
            C25_App(backend, cache, applications, id).reviewedAt # NoTime

\* a new application is submitted, with submittedAt set and reviewedAt unset;
\* a step into reviewing sets reviewedAt, and no other step changes it
C25_Step ==
    \A id \in C25_Ids(backend', cache', applications') :
        LET new == C25_App(backend', cache', applications', id)
        IN  IF id \notin C25_Ids(backend, cache, applications)
            THEN /\ new.status = "submitted"
                 /\ new.submittedAt # NoTime
                 /\ new.reviewedAt = NoTime
            ELSE LET old == C25_App(backend, cache, applications, id)
                     reviewed == old.status # "reviewing" /\ new.status = "reviewing"
                 IN  /\ reviewed => new.reviewedAt = now
                     /\ ~reviewed => new.reviewedAt = old.reviewedAt

\* C25: a new application is submitted with submittedAt set and reviewedAt
\* unset; the review transition sets reviewedAt and no other transition changes
\* it, so reviewedAt is set exactly for the applications that are or have been
\* in reviewing
C25_ReviewedAt == []C25_Reviewing /\ [][C25_Step]_vars

\* an application reviewed at time 1 and accepted later
C25_Witness ==
    /\ 1 \in C25_Ids(backend, cache, applications)
    /\ C25_App(backend, cache, applications, 1).status = "accepted"
    /\ C25_App(backend, cache, applications, 1).reviewedAt = 1
    /\ C25_App(backend, cache, applications, 1).updatedAt = 2

\* the lines a step adds to the JSONL log
C26_Added == SubSeq(eventLog', Len(eventLog) + 1, Len(eventLog'))

\* the lines among them that are points.award or application.completed
C26_Completion ==
    SelectSeq(C26_Added,
              LAMBDA e : e.eventType \in {"points.award", "application.completed"})

\* this step moves application id to completed
C26_Completed(id) ==
    /\ id \in C25_Ids(backend, cache, applications)
    /\ C25_App(backend, cache, applications, id).status # "completed"
    /\ C25_App(backend', cache', applications', id).status = "completed"

\* a successful update to completed has stored the status and ends the log with
\* points.award and then application.completed of that application; every
\* other step adds neither event
C26_Step ==
    IF \E id \in 1..MaxApps : C26_Completed(id)
    THEN LET id == CHOOSE i \in 1..MaxApps : C26_Completed(i)
             app == C25_App(backend', cache', applications', id)
         IN  /\ svcLast' = SvcCall("update_application_state", id, None, None, "ok")
             /\ Len(C26_Added) >= 2
             /\ C26_Completion
                  = <<[eventType |-> "points.award",
                       data |-> [applicationId |-> id, volunteerId |-> app.volunteerId,
                                 points |-> 100]],
                      [eventType |-> "application.completed",
                       data |-> [applicationId |-> id, volunteerId |-> app.volunteerId,
                                 opportunityId |-> app.opportunityId]]>>
             /\ SubSeq(C26_Added, Len(C26_Added) - 1, Len(C26_Added)) = C26_Completion
    ELSE C26_Completion = <<>>

\* C26: every successful update_application_state that moves an application
\* to completed publishes, after the status is stored, points.award and then
\* application.completed for it; no other transition publishes either
C26_CompletionEvents == [][C26_Step]_vars

\* a completed application with its two events at the end of the log
C26_Witness ==
    /\ svcLast.op = "update_application_state"
    /\ svcLast.result = "ok"
    /\ svcLast.application_id = 1
    /\ C25_App(backend, cache, applications, 1).status = "completed"
    /\ Len(eventLog) >= 2
    /\ eventLog[Len(eventLog) - 1].eventType = "points.award"
    /\ eventLog[Len(eventLog)].eventType = "application.completed"

\* this step changes the status of application id
C29_Changed(id) ==
    /\ id \in C25_Ids(backend, cache, applications)
    /\ C25_App(backend, cache, applications, id).status
           # C25_App(backend', cache', applications', id).status

\* C29: on the file backend every status change made through
\* update_application_state appends one application.state.changed entry with
\* the previous and the new state to the JSONL log
C29_Step ==
    \A id \in 1..MaxApps :
        backend = "file" /\ C29_Changed(id) =>
            LET changed == SelectSeq(C26_Added,
                               LAMBDA e : e.eventType = "application.state.changed")
            IN  /\ Len(changed) = 1
                /\ changed[1].data.applicationId = id
                /\ changed[1].data.previousState = cache[id].status
                /\ changed[1].data.newState = cache'[id].status

C29_StateChangedLogged == [][C29_Step]_vars

(***************************************************************************)
(* Both event stores: every operation that writes                          *)
(***************************************************************************)
AppendOnlyNext ==
    \/ \E a \in Aggregates, x \in ExpectedVersions :
          AppendEvent("p1", a, "application.updated", x)
    \/ AppendRead("p1")
    \/ AppendInsert("p1")
    \/ \E b \in Batches : AppendEventsBatch(b)
    \/ \E a \in Aggregates : BusAppend("application.updated", a)

\* one caller of append_event, with and without expected_version, batches, and
\* the in-memory store
SpecAppendOnly == StoreInit /\ [][AppendOnlyNext]_vars

\* every stored event is still stored, with every field as it was
C27_Step ==
    /\ events \subseteq events'
    /\ Len(busEvents') >= Len(busEvents)
    /\ SubSeq(busEvents', 1, Len(busEvents)) = busEvents

\* C27: no operation of the event store changes or removes a stored event: the
\* previous log is contained in the new one, every field unchanged
C27_AppendOnly == [][C27_Step]_vars

\* both stores hold two events, the second appended with the first in place
C27_Witness ==
    /\ Cardinality(events) = 2
    /\ Len(busEvents) = 2

(***************************************************************************)
(* services/matching/service.py: MatchingService                           *)
(***************************************************************************)
\* most suggestions created, and the largest limit passed
MaxSuggestions == 3
MaxMatchLimit == 2

\* _get_volunteer: the mock profiles, and the default one for an unknown id;
\* the locations are placed on one meridian, at latitudes that keep every
\* distance in its band (Cairo 30.04, Alexandria 31.20)
get_volunteer(volunteer_id) ==
    CASE volunteer_id = "vol1" ->
             [id |-> "vol1", skills |-> {"teaching", "administrative", "communication"},
              location |-> Location(3004),
              availability |-> {"weekend-morning", "weekend-afternoon", "weekday-evening"}]
      [] volunteer_id = "vol2" ->
             [id |-> "vol2", skills |-> {"medical", "counseling"},
              location |-> Location(3006),
              availability |-> {"weekday-morning", "weekday-afternoon"}]
      [] volunteer_id = "vol3" ->
             [id |-> "vol3", skills |-> {"technical", "programming", "design"},
              location |-> Location(3120),
              availability |-> {"weekend-morning", "weekend-evening"}]
      [] OTHER ->
             [id |-> volunteer_id, skills |-> {"general"}, location |-> Location(3004),
              availability |-> {"weekend-morning"}]

\* the mock opportunities, in the order of the list
MockOpportunities ==
    <<[id |-> "opp1", organizationId |-> "org1",
       requiredSkills |-> {"teaching", "communication"},
       timeSlots |-> {"weekend-morning", "weekend-afternoon"},
       location |-> Location(3006), category |-> "education"],
      [id |-> "opp2", organizationId |-> "org2", requiredSkills |-> {"medical"},
       timeSlots |-> {"weekday-morning", "weekday-afternoon"},
       location |-> Location(3005), category |-> "health"],
      [id |-> "opp3", organizationId |-> "org1",
       requiredSkills |-> {"administrative", "communication"},
       timeSlots |-> {"weekend-morning", "weekday-evening"},
       location |-> Location(3005), category |-> "administrative"],
      [id |-> "opp4", organizationId |-> "org3",
       requiredSkills |-> {"technical", "programming", "design"},
       timeSlots |-> {"weekend-morning", "weekend-evening"},
       location |-> Location(3121), category |-> "technology"],
      [id |-> "opp5", organizationId |-> "org2",
       requiredSkills |-> {"counseling", "communication"},
       timeSlots |-> {"weekday-afternoon", "weekend-afternoon"},
       location |-> Location(3004), category |-> "health"],
      [id |-> "opp6", organizationId |-> "org4", requiredSkills |-> {},
       timeSlots |-> {"weekend-morning", "weekend-afternoon"},
       location |-> Location(3004), category |-> "general"]>>

\* the filters dictionary: each key as a sequence of none or one value
Filters(category, skills) == [category |-> category, skills |-> skills]
\* no filters: None or an empty dictionary
NoFilters == Filters(<<>>, <<>>)

\* _get_available_opportunities(filters)
get_available_opportunities(filters) ==
    LET by_category ==
            IF filters.category # <<>>
            THEN SelectSeq(MockOpportunities,
                           LAMBDA opp : opp.category = filters.category[1])
            ELSE MockOpportunities
    IN  IF filters.skills # <<>>
        THEN SelectSeq(by_category,
                 LAMBDA opp : \/ opp.requiredSkills = {}
                              \/ filters.skills[1] \cap opp.requiredSkills # {})
        ELSE by_category

\* the loop of quick_match and generate_matches: one MatchSuggestion per ranked
\* pair, with the next uuid4(), saved one after another
RECURSIVE save_suggestions(_, _, _)
save_suggestions(m, volunteer_id, matches) ==
    IF matches = <<>> THEN [m |-> m, suggestions |-> <<>>]
    ELSE LET opportunity == Head(matches)[1]
             score == Head(matches)[2]
             suggestion == [id |-> m.uuid, volunteerId |-> volunteer_id,
                            opportunityId |-> opportunity.id,
                            organizationId |-> opportunity.organizationId,
                            score |-> score.total, generatedAt |-> 1,
                            status |-> "pending"]
             saved == match_save(m, suggestion).m
             rest == save_suggestions(
                         [saved EXCEPT !.uuid = @ + 1,
                                       !.saved = (suggestion.id :> suggestion) @@ @],
                         volunteer_id, Tail(matches))
         IN  [m |-> rest.m, suggestions |-> <<suggestion>> \o rest.suggestions]

\* quick_match(volunteer_id, limit)
quick_match(m, volunteer_id, limit) ==
    save_suggestions(m, volunteer_id,
        rank_opportunities(get_volunteer(volunteer_id),
                           get_available_opportunities(NoFilters), limit))

\* generate_matches(volunteer_id, filters, limit)
generate_matches(m, volunteer_id, filters, limit) ==
    save_suggestions(m, volunteer_id,
        rank_opportunities(get_volunteer(volunteer_id),
                           get_available_opportunities(filters), limit))

\* the calls made: volunteers known and unknown, with and without filters
MatchVolunteers == {"vol1", "vol3"}
MatchFilters == {NoFilters, Filters(<<"health">>, <<>>), Filters(<<>>, <<{"design"}>>)}

MatchServiceInit ==
    /\ \E be \in Backends :
          match = [backend |-> be, cache |-> <<>>, dataFile |-> {}, history |-> <<>>,
                   saved |-> <<>>, uuid |-> 1,
                   last |-> MatchCall("none", <<"", NoFilters, 0>>, <<>>)]
    /\ algo = Unused
    /\ repoLast = Unused
    /\ ExtraUnused
    /\ ProjUnused
    /\ StoreUnused
    /\ AppUnused
    /\ SMAndRetryUnused

QuickMatch(volunteer_id, limit) ==
    LET r == quick_match(match, volunteer_id, limit)
    IN  /\ r.m.uuid <= MaxSuggestions + 1
        /\ match' = [r.m EXCEPT !.last =
                        MatchCall("quick_match", <<volunteer_id, NoFilters, limit>>,
                                  r.suggestions)]
        /\ UNCHANGED matchFrame

GenerateMatches(volunteer_id, filters, limit) ==
    LET r == generate_matches(match, volunteer_id, filters, limit)
    IN  /\ r.m.uuid <= MaxSuggestions + 1
        /\ match' = [r.m EXCEPT !.last =
                        MatchCall("generate_matches", <<volunteer_id, filters, limit>>,
                                  r.suggestions)]
        /\ UNCHANGED matchFrame

\* get_suggestions(volunteer_id)
GetSuggestions(volunteer_id) ==
    /\ match' = [match EXCEPT !.last =
                    MatchCall("get_suggestions", <<volunteer_id, NoFilters, 0>>,
                              LET found == match_find_by_volunteer(match, volunteer_id)
                              IN  [i \in 1..Cardinality(found) |->
                                      CHOOSE s \in found :
                                          Cardinality({t \in found : t.id < s.id}) = i - 1])]
    /\ UNCHANGED matchFrame

MatchServiceNext ==
    \/ \E v \in MatchVolunteers, limit \in 1..MaxMatchLimit : QuickMatch(v, limit)
    \/ \E v \in MatchVolunteers, f \in MatchFilters, limit \in 1..MaxMatchLimit :
          GenerateMatches(v, f, limit)
    \/ \E v \in MatchVolunteers : GetSuggestions(v)

\* ranking runs made one after another, on either backend
SpecMatchService == MatchServiceInit /\ [][MatchServiceNext]_vars

\* the stored suggestions of a volunteer
C28_Stored(m, volunteer_id) ==
    {id \in DOMAIN m.cache : m.cache[id].volunteerId = volunteer_id}

\* a ranking run: one pending suggestion with a fresh id per ranked result;
\* on the file backend every earlier suggestion stays as it was and the
\* volunteer has as many more stored as the run returned
C28_Step ==
    (/\ match'.last # match.last
     /\ match'.last.op \in {"quick_match", "generate_matches"}) =>
        LET arg == match'.last.arg
            result == match'.last.result
            ranked == rank_opportunities(get_volunteer(arg[1]),
                                         get_available_opportunities(arg[2]), arg[3])
        IN  /\ Len(result) = Len(ranked)
            /\ \A i \in 1..Len(result) :
                  /\ result[i].opportunityId = ranked[i][1].id
                  /\ result[i].volunteerId = arg[1]
                  /\ result[i].status = "pending"
                  /\ result[i].id \notin DOMAIN match.saved
                  /\ \A j \in 1..Len(result) : result[j].id = result[i].id => j = i
            /\ match.backend = "file" =>
                  /\ \A id \in DOMAIN match.cache :
                        id \in DOMAIN match'.cache /\ match'.cache[id] = match.cache[id]
                  /\ \A i \in 1..Len(result) : match'.cache[result[i].id] = result[i]
                  /\ Cardinality(C28_Stored(match', arg[1]))
                        = Cardinality(C28_Stored(match, arg[1])) + Len(result)

\* C28: each quick_match or generate_matches run stores one new suggestion,
\* with a fresh id and status pending, per ranked result and removes or
\* replaces none; on the file backend the volunteer's stored suggestions grow
\* by the length of the returned list, so runs repeat (volunteer, opportunity)
C28_OnePerRun == [][C28_Step]_vars

\* two stored suggestions of one volunteer for one opportunity
C28_Witness ==
    /\ match.backend = "file"
    /\ match.last.op = "quick_match"
    /\ \E i, j \in DOMAIN match.cache :
          /\ i # j
          /\ match.cache[i].volunteerId = match.cache[j].volunteerId
          /\ match.cache[i].opportunityId = match.cache[j].opportunityId

(***************************************************************************)
(* services/applications/repository.py: the JSON file of the file backend  *)
(***************************************************************************)
\* datetime.fromisoformat of a field of the file: only a string is converted,
\* null stays None
fromisoformat(field) == IF field = <<>> THEN NoTime ELSE field[2]

\* _load: the cache a new repository builds from the file
load(file) ==
    [id \in DOMAIN file |->
        [file[id] EXCEPT !.createdAt = fromisoformat(@), !.updatedAt = fromisoformat(@),
                         !.submittedAt = fromisoformat(@),
                         !.reviewedAt = fromisoformat(@)]]

ReloadInit == SvcInit /\ backend = "file"

\* ApplicationRepository(data_dir) constructed again on the same directory
Reload ==
    /\ cache' = load(dataFile)
    /\ svcLast' = SvcCall("ApplicationRepository", NoId, None, None, "loaded")
    /\ UNCHANGED <<backend, dataFile, applications, eventLog, nextId, ops, events, now,
                   otherThanApp>>

ReloadNext ==
    \/ FlowTick
    \/ \E c \in FlowInputs : SubmitApplication(c[1], c[2])
    \/ \E id \in 1..MaxApps, action \in FlowActions : UpdateApplicationState(id, action)
    \/ Reload

\* the file backend under service calls, with the repository built anew at any time
SpecReload == ReloadInit /\ [][ReloadNext]_vars

\* C30: on the file backend, after every successful create or update the JSON
\* file holds exactly the cached applications: a new repository on the same
\* directory returns the same applications from get and list_all
C30_FileHoldsCache ==
    /\ DOMAIN dataFile = DOMAIN cache
    /\ load(dataFile) = cache
    /\ \A id \in 1..MaxApps :
          repo_get("file", [Storage EXCEPT !.cache = load(dataFile)], id)
              = repo_get("file", Storage, id)
    /\ StoredApps("file", load(dataFile), applications)
           = StoredApps("file", cache, applications)

\* a repository built anew holding an application that was reviewed at time 2
C30_Witness ==
    /\ svcLast.op = "ApplicationRepository"
    /\ 1 \in DOMAIN cache
    /\ cache[1].status = "reviewing"
    /\ cache[1].reviewedAt = 2
    /\ cache[1].createdAt = 1

(***************************************************************************)
(* services/applications/service.py: calls the service rejects             *)
(***************************************************************************)
\* a valid pair, and a missing id on either side
RejectInputs == {<<"v1", "o1">>, <<"", "o1">>, <<"v1", "">>}

RejectNext ==
    \/ FlowTick
    \/ \E c \in RejectInputs : SubmitApplication(c[1], c[2])
    \/ \E id \in 1..MaxApps, action \in SvcActions : UpdateApplicationState(id, action)

\* valid and invalid service calls made one after another while the clock advances
SpecReject == SvcInit /\ [][RejectNext]_vars

\* the last call was rejected
C31_Rejected(call) == call.op # "init" /\ call.result # "ok"

\* a step that ends with the last call rejected changes no stored application
\* and publishes nothing; a status changes only along the transition table
C31_Step ==
    /\ C31_Rejected(svcLast') =>
          /\ cache' = cache
          /\ dataFile' = dataFile
          /\ applications' = applications
          /\ events' = events
          /\ eventLog' = eventLog
    /\ \A id \in C25_Ids(backend, cache, applications) :
          LET old == C25_App(backend, cache, applications, id)
              new == C25_App(backend', cache', applications', id)
          IN  old.status # new.status =>
                  new.status \in SeqRange(transitions(old.status))

\* C31: a rejected service call (an empty volunteer or opportunity id, an
\* unknown application id, an action not permitted from the current status)
\* leaves every stored application unchanged and publishes no event
C31_RejectedUnchanged == [][C31_Step]_vars

\* application 1, submitted at time 1, after a call rejected at time 2
C31_Witness ==
    /\ svcLast.op = "update_application_state"
    /\ svcLast.application_id = 1
    /\ svcLast.result = "ValueError"
    /\ now = 2
    /\ 1 \in C25_Ids(backend, cache, applications)
    /\ C25_App(backend, cache, applications, 1).status = "submitted"
    /\ C25_App(backend, cache, applications, 1).updatedAt = 1

(***************************************************************************)
(* infrastructure/db/event_store.py: append_events_batch, batch by batch   *)
(***************************************************************************)
\* the longest batch
MaxBatchLen == 2

\* batches of events of one aggregate, and single events of any aggregate
LongBatches ==
    UNION {[1..n -> {d \in BatchItems : d.aggregate_id = "a1"}] : n \in 1..MaxBatchLen}
    \cup [1..1 -> BatchItems]

\* the last batch call: its argument and the exception it raised, if any
BatchCall(events_data, error) == [events_data |-> events_data, error |-> error]

BatchInit ==
    /\ events = {}
    /\ procs = [p \in Procs |-> IdleProc]
    /\ lastBatch = BatchCall(<<>>, None)
    /\ seqAuto = [a \in Aggregates |-> Impure]
    /\ busEvents = <<>>
    /\ now = 1
    /\ SMAndRetryUnused
    /\ AppUnused
    /\ ProjUnused
    /\ repoLast = Unused
    /\ ExtraUnused
    /\ MatchUnused

\* append_events_batch(events_data): one session, one transaction
AppendBatch(events_data) ==
    /\ LET r == append_batch(events, events_data, 1)
       IN  /\ events' = get_session(events, r)
           /\ lastBatch' = BatchCall(events_data, r.error)
    /\ UNCHANGED <<procs, seqAuto, busEvents, now, otherThanStore>>

BatchNext == \E b \in LongBatches : AppendBatch(b)

\* batches of one or more events appended one after another
SpecBatch == BatchInit /\ [][BatchNext]_vars

\* the (aggregate, version) pairs of rows and of a batch
C32_Keys(evs) == {<<e.aggregate_id, e.version>> : e \in evs}
C32_BatchKeys(d) == {<<d[i].aggregate_id, d[i].version>> : i \in 1..Len(d)}

\* some event of the batch cannot be stored: its (aggregate, version) is
\* stored already, or is that of an earlier event of the batch
C32_Fails(evs, d) ==
    \/ C32_BatchKeys(d) \cap C32_Keys(evs) # {}
    \/ Cardinality(C32_BatchKeys(d)) < Len(d)

\* a batch with an event that cannot be stored raises and leaves the log as it
\* was; any other batch stores all its events
C32_Step ==
    LET d == lastBatch'.events_data
    IN  IF C32_Fails(events, d)
        THEN /\ lastBatch'.error # None
             /\ events' = events
        ELSE /\ lastBatch'.error = None
             /\ events \subseteq events'
             /\ C32_Keys(events') = C32_Keys(events) \cup C32_BatchKeys(d)
             /\ Cardinality(events') = Cardinality(events) + Len(d)

\* C32: append_events_batch is all-or-nothing: if storing any event of the
\* batch fails, none of the batch's events is in the event log afterwards
C32_AllOrNothing == [][C32_Step]_vars

\* a batch whose first event could be stored and whose second could not
C32_Witness ==
    /\ Len(lastBatch.events_data) = 2
    /\ lastBatch.error # None
    /\ <<lastBatch.events_data[1].aggregate_id, lastBatch.events_data[1].version>>
           \notin C32_Keys(events)
    /\ events # {}

\* ---------------------------------------------------------------------------
\* The transition graph of ApplicationStateMachine
\* ---------------------------------------------------------------------------

\* the states one successful transition(action) leads to from a state
C33_Succ(state) ==
    {transition(state, action).state :
        action \in {a \in ActionNames : transition(state, a).result = "True"}}

\* the states reached from a state by exactly n successful transitions
RECURSIVE C33_Reach(_, _)
C33_Reach(state, n) ==
    IF n = 0 THEN {state}
    ELSE UNION {C33_Succ(s) : s \in C33_Reach(state, n - 1)}

C33_Graph ==
    /\ \A state \in ApplicationState : "draft" \notin C33_Succ(state)
    /\ \A state \in ApplicationState : C33_Reach(state, 5) = {}
    /\ \A state \in ApplicationState :
         ~is_terminal(state) =>
           \E n \in 1..4 : \E s \in C33_Reach(state, n) : is_terminal(s)

C33_Step ==
    smState' # smState =>
        /\ smState' # "draft"
        /\ smState' \in C33_Succ(smState)

\* C33: no transition leads into draft and the transition graph has no cycle:
\* no state starts a sequence of more than 4 successful transitions, every
\* state change of the machine follows an edge of that graph, and from every
\* non-terminal state a terminal state is reachable
C33_NoCycle == [](C33_Graph) /\ [][C33_Step]_vars

\* the machine has walked the longest path: a successful complete leaves it in
\* completed, four transitions away from draft
C33_Witness ==
    /\ smLast.op = "transition"
    /\ smLast.from = "accepted"
    /\ smLast.result = "True"
    /\ smState = "completed"
    /\ "completed" \in C33_Reach("draft", 4)

(***************************************************************************)
(* submit_application on the relational backend, step by step: the calls   *)
(* of several callers overlap, each await being a step of its own          *)
(***************************************************************************)
IdleSubmit ==
    [pc |-> "idle", volunteerId |-> None, opportunityId |-> None, application |-> {},
     result |-> None]

RaceInputs == {<<"v1", "o1">>, <<"v1", "o2">>, <<"", "o1">>}

SubmitRaceInit ==
    /\ now = 1
    /\ backend = "postgres"
    /\ events = {}
    /\ applications = <<>>
    /\ eventLog = <<>>
    /\ cache = <<>>
    /\ dataFile = <<>>
    /\ nextId = 1
    /\ svcLast = [op |-> "unused"]
    /\ ops = [p \in Procs |-> IdleSubmit]
    /\ procs = <<>>
    /\ lastBatch = None
    /\ seqAuto = <<>>
    /\ busEvents = <<>>
    /\ SMAndRetryUnused
    /\ ProjUnused
    /\ repoLast = Unused
    /\ ExtraUnused
    /\ MatchUnused

raceFrame == <<backend, cache, dataFile, svcLast, now, otherThanApp>>

\* submit_application up to repository.create: the validation, find_by_volunteer
\* and the existing-application check, then Application(id=str(uuid4()), ...)
SubCheck(p, volunteerId, opportunityId) ==
    /\ ops[p].pc \in {"idle", "done"}
    /\ LET existing_apps == find_by_volunteer(backend, Storage, volunteerId)
           call == [IdleSubmit EXCEPT !.volunteerId = volunteerId,
                                      !.opportunityId = opportunityId]
           invalid ==
               IF volunteerId = "" THEN "Volunteer ID is required"
               ELSE IF opportunityId = "" THEN "Opportunity ID is required"
               ELSE IF already_exists(existing_apps, opportunityId)
               THEN "Application already exists"
               ELSE None
       IN  IF invalid # None
           THEN /\ ops' = [ops EXCEPT ![p] = [call EXCEPT !.pc = "done",
                                                          !.result = invalid]]
                /\ UNCHANGED nextId
           ELSE /\ nextId <= MaxApps
                /\ ops' = [ops EXCEPT ![p] =
                       [call EXCEPT !.pc = "create",
                                    !.application =
                                        {NewApplication(nextId, volunteerId,
                                                        opportunityId)}]]
                /\ nextId' = nextId + 1
    /\ UNCHANGED <<events, applications, eventLog, raceFrame>>

\* submit_application: application = await self.repository.create(application)
SubCreate(p) ==
    /\ ops[p].pc = "create"
    /\ LET created == create_postgres(Storage, CHOOSE a \in ops[p].application : TRUE)
       IN  /\ events' = created.st.events
           /\ applications' = created.st.applications
           /\ ops' = [ops EXCEPT ![p] =
                  IF created.error # None
                  THEN [@ EXCEPT !.pc = "done", !.result = created.error]
                  ELSE [@ EXCEPT !.pc = "publish"]]
    /\ UNCHANGED <<eventLog, nextId, raceFrame>>

\* submit_application: await self.event_publisher.publish("application.submitted", ..)
SubPublish(p) ==
    /\ ops[p].pc = "publish"
    /\ LET application == CHOOSE a \in ops[p].application : TRUE
       IN  eventLog' = publish(eventLog, "application.submitted",
                               [applicationId |-> application.id,
                                volunteerId |-> application.volunteerId,
                                opportunityId |-> application.opportunityId])
    /\ ops' = [ops EXCEPT ![p] = [@ EXCEPT !.pc = "done", !.result = "ok"]]
    /\ UNCHANGED <<events, applications, nextId, raceFrame>>

SubmitRaceNext ==
    \/ \E p \in Procs, c \in RaceInputs : SubCheck(p, c[1], c[2])
    \/ \E p \in Procs : SubCreate(p)
    \/ \E p \in Procs : SubPublish(p)

\* overlapping submit_application calls on the relational backend
SpecSubmitRace == SubmitRaceInit /\ [][SubmitRaceNext]_vars

\* C34: on the relational backend, when two submit_application calls for the
\* same (volunteer, opportunity) pair overlap, at most one succeeds: at most one
\* application per pair is in a non-terminal state
C34_OnePerPair ==
    \A c \in RaceInputs :
        Cardinality({a.id : a \in C3_Active(StoredApps(backend, cache, applications),
                                            c[1], c[2])}) <= 1

\* the state-changed events stored for an application
C35_Changes(id) ==
    {e \in events : /\ e.aggregate_id = id
                    /\ e.event_type = "application.state.changed"}

C35_Quiet(id) == \A p \in Procs : ops[p].application_id = id => ~OpActive(p)

C35_Settled ==
    \A id \in DOMAIN applications :
        C35_Quiet(id) =>
            /\ applications[id].version = get_aggregate_version(events, id)
            /\ \A e \in C35_Changes(id) :
                  (\A f \in C35_Changes(id) : f.version <= e.version)
                      => applications[id].status = e.payload.newState

C35_Step ==
    \A id \in DOMAIN applications :
        applications'[id].version >= applications[id].version

\* C35: on the relational backend, under any interleaving of overlapping update
\* operations on one application, the projection row's version never decreases,
\* and once all operations have finished it equals the aggregate's maximum
\* version in the event store, with the status of the latest state-changed event
C35_ProjectionFollows == [](C35_Settled) /\ [][C35_Step]_vars

\* the points.award events published for an application
C36_Awards(id) ==
    {i \in 1..Len(eventLog) : /\ eventLog[i].eventType = "points.award"
                              /\ eventLog[i].data.applicationId = id}

\* f is the state-changed event that follows e in the stream of an application
C36_Successive(e, f) ==
    /\ e.aggregate_id = f.aggregate_id
    /\ e.version < f.version
    /\ \A g \in C35_Changes(e.aggregate_id) : ~(e.version < g.version /\ g.version < f.version)

\* C36: under any interleaving of overlapping update_application_state calls
\* on one application, at most one points.award event is published for it, and
\* the statuses of its successive state-changed events follow the transition
\* table, each event's previousState being the newState of the one before
C36_OneAwardAndChain ==
    \A id \in DOMAIN applications :
        /\ Cardinality(C36_Awards(id)) <= 1
        /\ \A e \in C35_Changes(id) :
              e.payload.newState \in SeqRange(transitions(e.payload.previousState))
        /\ \A e, f \in C35_Changes(id) :
              C36_Successive(e, f) => f.payload.previousState = e.payload.newState

(***************************************************************************)
(* The file backend when writing applications.json fails                   *)
(***************************************************************************)
\* what open(self.data_file, 'w') and json.dump do in a call: the write succeeds,
\* open raises (the file is left as it was), or the dump raises after open has
\* truncated the file
DiskOutcomes == {"ok", "open_fails", "dump_fails"}

\* _save with the outcome of the write: the file afterwards and the error raised
save_disk(file, c, disk) ==
    CASE disk = "ok"         -> [error |-> None, dataFile |-> save(c)]
      [] disk = "open_fails" -> [error |-> "OSError", dataFile |-> file]
      [] disk = "dump_fails" -> [error |-> "OSError", dataFile |-> <<>>]

\* _create_file: the cache entry is assigned, then _save runs
create_file_disk(st, application, disk) ==
    IF application.id \in DOMAIN st.cache
    THEN [error |-> "ValueError", st |-> st]
    ELSE LET c == st.cache @@ (application.id :> application)
             saved == save_disk(st.dataFile, c, disk)
         IN  IF saved.error # None
             THEN [error |-> saved.error,
                   st |-> [st EXCEPT !.cache = c, !.dataFile = saved.dataFile]]
             ELSE create_file(st, application)

\* _update_file: the cache entry is assigned, then _save runs
update_file_disk(st, application, disk) ==
    IF application.id \notin DOMAIN st.cache
    THEN [error |-> "ValueError", st |-> st]
    ELSE LET app == [application EXCEPT !.updatedAt = now]
             c == [st.cache EXCEPT ![app.id] = app]
             saved == save_disk(st.dataFile, c, disk)
         IN  IF saved.error # None
             THEN [error |-> saved.error,
                   st |-> [st EXCEPT !.cache = c, !.dataFile = saved.dataFile]]
             ELSE update_file(st, application)

DiskInit == SvcInit /\ backend = "file"

\* submit_application on the file backend, the write of the file ending as disk
FileSubmit(volunteerId, opportunityId, disk) ==
    LET existing_apps == find_by_volunteer(backend, Storage, volunteerId)
        invalid ==
            IF volunteerId = "" THEN "Volunteer ID is required"
            ELSE IF opportunityId = "" THEN "Opportunity ID is required"
            ELSE IF already_exists(existing_apps, opportunityId)
            THEN "Application already exists"
            ELSE None
        application == NewApplication(nextId, volunteerId, opportunityId)
        created == create_file_disk(Storage, application, disk)
    IN  IF invalid # None
        THEN /\ svcLast' = SvcCall("submit_application", NoId, volunteerId,
                                   opportunityId, invalid)
             /\ UNCHANGED <<backend, cache, dataFile, applications, eventLog, nextId,
                            ops, events, now, otherThanApp>>
        ELSE /\ nextId <= MaxApps
             /\ IF created.error # None
                THEN /\ SetStorage(created.st)
                     /\ svcLast' = SvcCall("submit_application", NoId, volunteerId,
                                           opportunityId, created.error)
                ELSE /\ SetStorage([created.st EXCEPT !.eventLog =
                            publish(@, "application.submitted",
                                    [applicationId |-> application.id,
                                     volunteerId |-> volunteerId,
                                     opportunityId |-> opportunityId])])
                     /\ svcLast' = SvcCall("submit_application", application.id,
                                           volunteerId, opportunityId, "ok")
             /\ nextId' = nextId + 1
             /\ UNCHANGED <<backend, ops, now, otherThanApp>>

\* update_application_state on the file backend, the write of the file ending as disk
FileUpdate(application_id, action, disk) ==
    LET got == repo_get(backend, Storage, application_id)
        application == CHOOSE a \in got : TRUE
        r == apply_action(application, action)
        updated == update_file_disk(mutate_in_place(backend, Storage, r.application),
                                    r.application, disk)
        failed(error) ==
            /\ svcLast' = SvcCall("update_application_state", application_id, None,
                                  None, error)
            /\ UNCHANGED <<backend, cache, dataFile, applications, eventLog, nextId,
                           ops, events, now, otherThanApp>>
    IN  IF got = {} THEN failed("not found")
        ELSE IF r.error # None THEN failed(r.error)
        ELSE /\ IF updated.error # None
                THEN /\ SetStorage(updated.st)
                     /\ svcLast' = SvcCall("update_application_state", application_id,
                                           None, None, updated.error)
                ELSE /\ SetStorage(
                            IF r.application.status = "completed"
                            THEN [updated.st EXCEPT !.eventLog =
                                     handle_completion(@, r.application)]
                            ELSE updated.st)
                     /\ svcLast' = SvcCall("update_application_state", application_id,
                                           None, None, "ok")
             /\ UNCHANGED <<backend, nextId, ops, now, otherThanApp>>

DiskNext ==
    \/ \E c \in FlowInputs, disk \in DiskOutcomes : FileSubmit(c[1], c[2], disk)
    \/ \E id \in 1..MaxApps, action \in FlowActions, disk \in DiskOutcomes :
          FileUpdate(id, action, disk)

\* the service on the file backend with a disk that may fail
SpecDisk == DiskInit /\ [][DiskNext]_vars

\* C37: on the file backend, if writing the JSON file fails during a create or
\* a status update, the operation fails and the in-memory cache is as it was
\* before the call
C37_FailedWriteKeepsCache == [][svcLast'.result = "OSError" => cache' = cache]_vars

(***************************************************************************)
(* infrastructure/event_bus.py: RedisEventBus.subscribe, one consumer of   *)
(* one consumer group                                                      *)
(***************************************************************************)
\* most entries of the stream
MaxStream == 3
\* batch_size of subscribe (count of xreadgroup)
SubBatchSize == 2
\* event_types of the subscriber, and the types producers write
SubEventTypes == {"application.submitted"}
StreamTypes == {"application.submitted", "match.generated"}

\* an entry of the stream: its type, and whether StreamEvent.from_dict accepts
\* its fields
StreamEntry(type, parses) == [type |-> type, parses |-> parses]

SubscribeInit ==
    /\ sub = [stream |-> <<>>, delivered |-> 0, batch |-> <<>>, pos |-> 1,
              handled |-> <<>>, failed |-> {}, acked |-> <<>>, connected |-> TRUE]
    /\ redis = Unused
    /\ db = Unused
    /\ auth = Unused
    /\ SMAndRetryUnused
    /\ StoreUnused
    /\ AppUnused
    /\ ProjUnused
    /\ repoLast = Unused
    /\ MatchUnused

subFrame == <<smVars, retryVars, storeVars, appVars, projVars, repoLast, matchVars,
              redis, db, auth>>

\* a producer adds an entry to the stream
XAdd(type, parses) ==
    /\ Len(sub.stream) < MaxStream
    /\ sub' = [sub EXCEPT !.stream = Append(@, StreamEntry(type, parses))]
    /\ UNCHANGED subFrame

\* xreadgroup(group, consumer, {stream: '>'}, count=batch_size): the entries never
\* delivered to the group, oldest first
xreadgroup(stream, delivered, count) ==
    [i \in 1..(IF Len(stream) - delivered < count THEN Len(stream) - delivered
               ELSE count) |-> delivered + i]

\* the body of while True, up to the loop over the messages: the read, or the
\* except branch of a read that raises
XReadGroup(raises) ==
    /\ sub.pos > Len(sub.batch)
    /\ sub' = IF raises
              THEN [sub EXCEPT !.connected = FALSE, !.batch = <<>>, !.pos = 1]
              ELSE LET messages == xreadgroup(sub.stream, sub.delivered, SubBatchSize)
                   IN  [sub EXCEPT !.batch = messages, !.pos = 1,
                                   !.delivered = @ + Len(messages)]
    /\ UNCHANGED subFrame

\* the body of the loop over the messages of a batch: from_dict, the filter,
\* _handle_event_safely, xack, and the except branch around them
process_message(s, handler_raises, xack_raises) ==
    LET message_id == s.batch[s.pos]
        fields == s.stream[message_id]
        next == [s EXCEPT !.pos = @ + 1]
    IN  IF ~fields.parses THEN next
        ELSE LET after == IF fields.type \in SubEventTypes
                          THEN [next EXCEPT !.handled = Append(@, message_id),
                                            !.failed = IF handler_raises
                                                       THEN @ \cup {message_id} ELSE @]
                          ELSE next
             IN  IF xack_raises THEN after
                 ELSE [after EXCEPT !.acked = Append(@, message_id)]

ProcessMessage(handler_raises, xack_raises) ==
    /\ sub.pos <= Len(sub.batch)
    /\ sub' = process_message(sub, handler_raises, xack_raises)
    /\ UNCHANGED subFrame

SubscribeNext ==
    \/ \E type \in StreamTypes, parses \in BOOLEAN : XAdd(type, parses)
    \/ \E raises \in BOOLEAN : XReadGroup(raises)
    \/ \E handler_raises, xack_raises \in BOOLEAN :
          ProcessMessage(handler_raises, xack_raises)

SpecSubscribe == SubscribeInit /\ [][SubscribeNext]_vars

\* how often a message id occurs in a sequence of ids
C38_Count(seq, id) == Cardinality({i \in 1..Len(seq) : seq[i] = id})

\* the messages read from the group whose turn in the loop is over
C38_Processed ==
    {id \in 1..sub.delivered :
        \A i \in 1..Len(sub.batch) : sub.batch[i] = id => i < sub.pos}

C38_AckedOnce ==
    \A id \in C38_Processed :
        /\ C38_Count(sub.acked, id) = 1
        /\ C38_Count(sub.handled, id)
             = (IF sub.stream[id].type \in SubEventTypes THEN 1 ELSE 0)

\* C38: in RedisEventBus.subscribe every message read from the consumer group
\* is acknowledged exactly once: after the handler has run when its type is in
\* event_types, also when the handler raises, and without running the handler
\* otherwise; a failing handler never stops later messages
C38_AckExactlyOnce ==
    /\ [](C38_AckedOnce)
    /\ [][sub'.failed # sub.failed => sub'.pos = sub.pos + 1]_vars

(***************************************************************************)
(* services/auth/repository.py: UserRepository over auth_events.jsonl      *)
(***************************************************************************)
\* most lines of auth_events.jsonl
MaxAuthEvents == 4
AuthTimes == {1, 2}
AuthUsers == {"u1", "u2"}
AuthEmail == "a@example.com"

\* the fields of an event's data by their JSON type
JsonBoolFields == {"isVerified"}
JsonTimeFields == {"createdAt", "updatedAt", "lastLoginAt", "loginAt"}

\* json.dumps of one value: true/false for a bool, null for None, the quoted
\* text for a string (an ISO timestamp is a string)
json_dumps_value(name, v) ==
    IF name \in JsonBoolFields THEN (IF v THEN <<"true">> ELSE <<"false">>)
    ELSE IF name \in JsonTimeFields THEN (IF v = <<>> THEN <<"null">> ELSE <<"s">> \o v)
    ELSE IF v = None THEN <<"null">> ELSE <<"s", v>>

\* json.loads of one value
json_loads_value(name, j) ==
    IF name \in JsonBoolFields THEN j = <<"true">>
    ELSE IF name \in JsonTimeFields THEN (IF j = <<"null">> THEN <<>> ELSE Tail(j))
    ELSE IF j = <<"null">> THEN None ELSE j[2]

\* json.dumps(event): one line of the file
json_dumps(event) ==
    [id |-> event.id, type |-> <<"s", event.type>>, userId |-> <<"s", event.userId>>,
     timestamp |-> <<"s">> \o event.timestamp,
     data |-> [k \in DOMAIN event.data |-> json_dumps_value(k, event.data[k])]]

\* json.loads(line.strip())
json_loads(line) ==
    [id |-> line.id, type |-> line.type[2], userId |-> line.userId[2],
     timestamp |-> Tail(line.timestamp),
     data |-> [k \in DOMAIN line.data |-> json_loads_value(k, line.data[k])]]

\* _apply_event on the state cache
apply_event(state_cache, event) ==
    LET user_id == event.userId
        data == event.data
    IN  CASE event.type = "user_registered" ->
               (user_id :> [id |-> user_id, email |-> data.email, name |-> data.name,
                            role |-> data.role, isVerified |-> data.isVerified,
                            createdAt |-> data.createdAt, updatedAt |-> data.updatedAt,
                            lastLoginAt |-> data.lastLoginAt,
                            profileImageUrl |-> data.profileImageUrl,
                            hashedPassword |-> data.hashedPassword,
                            isActive |-> TRUE]) @@ state_cache
          [] event.type = "user_password_updated" /\ user_id \in DOMAIN state_cache ->
               [state_cache EXCEPT ![user_id] =
                   [@ EXCEPT !.hashedPassword = data.hashedPassword,
                             !.updatedAt = data.updatedAt]]
          [] event.type = "user_deactivated" /\ user_id \in DOMAIN state_cache ->
               [state_cache EXCEPT ![user_id] =
                   [@ EXCEPT !.isActive = FALSE, !.updatedAt = data.updatedAt]]
          [] event.type = "user_login" /\ user_id \in DOMAIN state_cache ->
               [state_cache EXCEPT ![user_id] = [@ EXCEPT !.lastLoginAt = data.loginAt]]
          [] OTHER -> state_cache

\* _rebuild_state: the cache cleared, then every line of the file applied in order
RECURSIVE rebuild_from(_, _, _)
rebuild_from(state_cache, file, i) ==
    IF i > Len(file) THEN state_cache
    ELSE rebuild_from(apply_event(state_cache, json_loads(file[i])), file, i + 1)

rebuild_state(file) == rebuild_from(<<>>, file, 1)

\* mutant of _append_event: a login is applied to the cache and not written
append_event_mut(a, event) ==
    [a EXCEPT !.file = IF event.type = "user_login" THEN @
                       ELSE Append(@, json_dumps(event)),
              !.state_cache = apply_event(@, event)]

\* _append_event: the line is written, then the event is applied in memory
append_event(a, event) ==
    [a EXCEPT !.file = Append(@, json_dumps(event)),
              !.state_cache = apply_event(@, event)]

\* an event as create, update_password, deactivate and record_login build it
AuthEvent(a, type, user_id, data) ==
    [id |-> Len(a.file) + 1, timestamp |-> isoformat(now), type |-> type,
     userId |-> user_id, data |-> data]

\* find_by_email: is there an active user with this email
find_by_email(state_cache, email) ==
    \E id \in DOMAIN state_cache :
        state_cache[id].email = email /\ state_cache[id].isActive

AuthCall(op, user_id, result) == [op |-> op, user_id |-> user_id, result |-> result]

AuthInit ==
    /\ auth = [state_cache |-> <<>>, file |-> <<>>, last |-> AuthCall("init", None, None)]
    /\ events = {}
    /\ procs = <<>>
    /\ lastBatch = None
    /\ seqAuto = <<>>
    /\ busEvents = <<>>
    /\ now = 1
    /\ redis = Unused
    /\ db = Unused
    /\ sub = Unused
    /\ SMAndRetryUnused
    /\ AppUnused
    /\ ProjUnused
    /\ repoLast = Unused
    /\ MatchUnused

authFrame == <<smVars, retryVars, events, procs, lastBatch, seqAuto, busEvents,
               appVars, projVars, repoLast, matchVars, redis, db, sub>>

\* the outcome of a call that wrote no event
AuthRefused(op, user_id, result) ==
    /\ auth' = [auth EXCEPT !.last = AuthCall(op, user_id, result)]
    /\ UNCHANGED <<now, authFrame>>

\* the outcome of a call that appended its event
AuthAppended(op, event) ==
    /\ Len(auth.file) < MaxAuthEvents
    /\ auth' = [append_event(auth, event) EXCEPT !.last = AuthCall(op, event.userId, "ok")]
    /\ UNCHANGED <<now, authFrame>>

\* create(user_data), user_data as register_user builds it
AuthCreate(user_id) ==
    IF user_id \in DOMAIN auth.state_cache \/ find_by_email(auth.state_cache, AuthEmail)
    THEN AuthRefused("create", user_id, "ValueError")
    ELSE AuthAppended("create",
             AuthEvent(auth, "user_registered", user_id,
                 [email |-> AuthEmail, name |-> "User", role |-> "VOLUNTEER",
                  hashedPassword |-> "hash1", isVerified |-> TRUE,
                  createdAt |-> isoformat(now), updatedAt |-> isoformat(now),
                  lastLoginAt |-> isoformat(NoTime), profileImageUrl |-> None]))

\* update_password(user_id, hashed_password)
AuthUpdatePassword(user_id) ==
    IF user_id \notin DOMAIN auth.state_cache
    THEN AuthRefused("update_password", user_id, None)
    ELSE AuthAppended("update_password",
             AuthEvent(auth, "user_password_updated", user_id,
                 [hashedPassword |-> "hash2", updatedAt |-> isoformat(now)]))

\* deactivate(user_id)
AuthDeactivate(user_id) ==
    IF user_id \notin DOMAIN auth.state_cache
    THEN AuthRefused("deactivate", user_id, None)
    ELSE AuthAppended("deactivate",
             AuthEvent(auth, "user_deactivated", user_id,
                 [updatedAt |-> isoformat(now)]))

\* record_login(user_id)
AuthRecordLogin(user_id) ==
    IF user_id \notin DOMAIN auth.state_cache
    THEN AuthRefused("record_login", user_id, None)
    ELSE AuthAppended("record_login",
             AuthEvent(auth, "user_login", user_id, [loginAt |-> isoformat(now)]))

\* UserRepository(data_dir) on the same directory: a new instance whose cache is
\* rebuilt from the file
AuthRestart ==
    /\ auth' = [auth EXCEPT !.state_cache = rebuild_state(auth.file),
                            !.last = AuthCall("restart", None, "ok")]
    /\ UNCHANGED <<now, authFrame>>

AuthTick ==
    /\ now + 1 \in AuthTimes
    /\ now' = now + 1
    /\ UNCHANGED <<auth, authFrame>>

AuthNext ==
    \/ \E user_id \in AuthUsers : AuthCreate(user_id)
    \/ \E user_id \in AuthUsers : AuthUpdatePassword(user_id)
    \/ \E user_id \in AuthUsers : AuthDeactivate(user_id)
    \/ \E user_id \in AuthUsers : AuthRecordLogin(user_id)
    \/ AuthRestart
    \/ AuthTick

SpecAuth == AuthInit /\ [][AuthNext]_vars

\* C39: the user state rebuilt from the event log equals the live state: after
\* any sequence of create, update_password, deactivate and record_login, a new
\* UserRepository on the same directory holds the same users with the same
\* fields, password hash and active flag
C39_RebuildEqualsLive ==
    /\ [](rebuild_state(auth.file) = auth.state_cache)
    /\ [][auth'.last.op = "restart" => auth'.state_cache = auth.state_cache]_vars

\* a restart after a user registered, changed the password at a later time,
\* logged in and was deactivated: the rebuilt user carries all four
C39_Witness ==
    /\ auth.last.op = "restart"
    /\ "u1" \in DOMAIN auth.state_cache
    /\ auth.state_cache["u1"].hashedPassword = "hash2"
    /\ auth.state_cache["u1"].updatedAt = isoformat(2)
    /\ auth.state_cache["u1"].createdAt = isoformat(1)
    /\ auth.state_cache["u1"].lastLoginAt # isoformat(NoTime)
    /\ ~auth.state_cache["u1"].isActive

====
